---- MODULE Spec2Model ----
(***************************************************************************)
(* VaultWeb: the file lifecycle and storage-abstraction core.              *)
(*                                                                         *)
(* The metadata repository (server/storage.ts, DatabaseStorage over the    *)
(* schema of shared/schema.ts), the object store adapter (s3Service.ts:    *)
(* S3StorageService and LocalStorageService), the FileService              *)
(* (fileService.ts) and the HTTP route handlers (src/server/auth.ts) that  *)
(* call them.  Every handler is an async function: each `await` is a point *)
(* at which another request may run, so a handler is a sequence of atomic  *)
(* steps of a request process, one step per awaited call.                  *)
(***************************************************************************)
EXTENDS Integers, Sequences, FiniteSets, TLC

VARIABLES
    driver,       \* process.env.STORAGE_DRIVER: "s3" or "local", fixed at start
    files,        \* table files:   id -> row, DOMAIN = the ids that have a row
    folders,      \* table folders: id -> row
    auditLogs,    \* table audit_logs, in insertion order
    objects,      \* the backing store: storage key -> bytes
    uploads,      \* multipart uploads open in the networked store: uploadId -> state
    now,          \* the clock read by new Date() and defaultNow()
    nextFileId,   \* gen_random_uuid() for files.id: the next unused id
    nextFolderId, \* gen_random_uuid() for folders.id
    nextUuid,     \* crypto.randomUUID(): the next unused value
    shareLinks,   \* table share_links: id -> row
    nextShareId,  \* gen_random_uuid() for share_links.id
    reqs          \* the requests being served: process -> its handler's frame

vars == <<driver, files, folders, auditLogs, objects, uploads, now,
          nextFileId, nextFolderId, nextUuid, shareLinks, nextShareId, reqs>>

---------------------------------------------------------------------------
(* Bounds of the model. *)

MaxFiles == 2       \* file rows ever created
MaxFolders == 2     \* folder rows ever created
MaxTime == 2        \* clock values
MaxAudit == 3       \* audit entries ever appended
MaxUuid == 3        \* random UUIDs ever drawn for keys and upload ids
MaxBatch == 1       \* ids in one restore or purge request
MaxParts == 1       \* part numbers a client transfers
MaxShares == 2      \* share links ever created
MaxZip == 2         \* ids in one batch download request

\* createMultipartUpload signs URLs for part numbers 1..10
PresignedParts == 10

Users == {"alice", "bob"}
Procs == {1, 2}

Null == 0
FileIds == 1..MaxFiles
FolderIds == 1..MaxFolders

\* req.file.buffer of an upload: the bytes of the file
Buffers == {<<7, 8>>}
\* req.file.originalname / body.filename
Filenames == {"report.pdf"}
\* body.name of a rename
NewNames == {"renamed"}
\* the bytes a client PUTs to a part URL
PartBytes == {<<7, 8>>}

---------------------------------------------------------------------------
(* Pure helpers of FileService. *)

\* path.extname(filename)
ExtName(filename) ==
    CASE filename = "report.pdf" -> ".pdf"
      [] filename = "photo.png" -> ".png"
      [] filename = "notes" -> ""
      [] OTHER -> ""

\* path.basename(filename, ext)
BaseName(filename) ==
    CASE filename = "report.pdf" -> "report"
      [] filename = "photo.png" -> "photo"
      [] OTHER -> filename

\* ext.slice(1)
Slice1(ext) ==
    CASE ext = ".pdf" -> "pdf"
      [] ext = ".png" -> "png"
      [] OTHER -> ""

getMimeTypeFromExtension(ext) ==
    CASE ext = ".pdf" -> "application/pdf"
      [] ext = ".png" -> "image/png"
      [] OTHER -> "application/octet-stream"

\* generateStorageKey without the random part: `${ownerId}/${date}/${ext}`
generateStorageKey_NoUuid(ownerId, filename, uuid) ==
    [owner |-> ownerId, uuid |-> 0, ext |-> ExtName(filename)]

\* `${ownerId}/${year}/${month}/${day}/${uuid}${ext}`, uuid from
\* crypto.randomUUID(); the date part, which no operation reads back, is
\* left out of the key's value.
generateStorageKey(ownerId, filename, uuid) ==
    [owner |-> ownerId, uuid |-> uuid, ext |-> ExtName(filename)]

NoKey == [owner |-> "", uuid |-> 0, ext |-> ""]

\* sha256 of the buffer, hex: injective on the buffers of the model
calculateChecksum(buffer) == <<"sha256">> \o buffer

NoChecksum == <<>>

---------------------------------------------------------------------------
(* Rows. *)

NoFile ==
    [id |-> Null, name |-> "", ext |-> "", mime |-> "", size |-> 0,
     storageKey |-> NoKey, checksum |-> NoChecksum, ownerId |-> "",
     folderId |-> Null, createdAt |-> Null, updatedAt |-> Null,
     deletedAt |-> Null]

NoFolder ==
    [id |-> Null, name |-> "", parentId |-> Null, ownerId |-> "",
     createdAt |-> Null, updatedAt |-> Null, deletedAt |-> Null]

\* DatabaseStorage.getFileById: the row, or undefined
getFileById(id) == IF id \in DOMAIN files THEN files[id] ELSE NoFile

getFolderById(id) == IF id \in DOMAIN folders THEN folders[id] ELSE NoFolder

\* The foreign keys files.folder_id -> folders.id and folders.parent_id ->
\* folders.id, checked by the database on insert and update
FolderFkOk(folderId) == folderId = Null \/ folderId \in DOMAIN folders

\* DatabaseStorage.createFile: the table after the insert (id, createdAt,
\* updatedAt from the column defaults, deletedAt null)
createFile(file) ==
    files @@ (nextFileId :>
        [id |-> nextFileId, name |-> file.name, ext |-> file.ext,
         mime |-> file.mime, size |-> file.size,
         storageKey |-> file.storageKey, checksum |-> file.checksum,
         ownerId |-> file.ownerId, folderId |-> file.folderId,
         createdAt |-> now, updatedAt |-> now, deletedAt |-> Null])

\* DatabaseStorage.createFolder
createFolder(folder) ==
    folders @@ (nextFolderId :>
        [id |-> nextFolderId, name |-> folder.name,
         parentId |-> folder.parentId, ownerId |-> folder.ownerId,
         createdAt |-> now, updatedAt |-> now, deletedAt |-> Null])

\* DatabaseStorage.updateFile with the updates the PATCH schema lets through:
\* name and folderId, each optional ("" / Null = not given), and updatedAt
updateFile(tbl, id, name, folderId, t) ==
    [f \in DOMAIN tbl |->
        IF f = id
        THEN [tbl[f] EXCEPT
                 !.name = IF name = "" THEN @ ELSE name,
                 !.folderId = IF folderId = Null THEN @ ELSE folderId,
                 !.updatedAt = t]
        ELSE tbl[f]]

\* DatabaseStorage.updateFolder
updateFolder(tbl, id, name, parentId, t) ==
    [f \in DOMAIN tbl |->
        IF f = id
        THEN [tbl[f] EXCEPT
                 !.name = IF name = "" THEN @ ELSE name,
                 !.parentId = IF parentId = Null THEN @ ELSE parentId,
                 !.updatedAt = t]
        ELSE tbl[f]]

\* deleteFile written as an update that also refreshes updated_at
deleteFile_TouchesUpdatedAt(tbl, id, t) ==
    [f \in DOMAIN tbl |->
        IF f = id THEN [tbl[f] EXCEPT !.deletedAt = t, !.updatedAt = t]
        ELSE tbl[f]]

\* DatabaseStorage.deleteFile: UPDATE files SET deleted_at = t WHERE id = id
deleteFile(tbl, id, t) ==
    [f \in DOMAIN tbl |->
        IF f = id THEN [tbl[f] EXCEPT !.deletedAt = t] ELSE tbl[f]]

\* deleteFolder trashing the folder and the folders directly inside it
deleteFolder_WithChildren(tbl, id, t) ==
    [f \in DOMAIN tbl |->
        IF f = id \/ tbl[f].parentId = id
        THEN [tbl[f] EXCEPT !.deletedAt = t]
        ELSE tbl[f]]

\* DatabaseStorage.deleteFolder
deleteFolder(tbl, id, t) ==
    [f \in DOMAIN tbl |->
        IF f = id THEN [tbl[f] EXCEPT !.deletedAt = t] ELSE tbl[f]]

\* DatabaseStorage.restoreFromTrash: the same UPDATE on the table the type
\* selects, SET deleted_at = null, updated_at = t WHERE id = id
restoreFromTrash(tbl, id, t) ==
    [f \in DOMAIN tbl |->
        IF f = id
        THEN [tbl[f] EXCEPT !.deletedAt = Null, !.updatedAt = t]
        ELSE tbl[f]]

\* permanentlyDelete marking the row deleted instead of removing it
permanentlyDeleteFile_MarksDeleted(tbl, id) ==
    [f \in DOMAIN tbl |->
        IF f = id THEN [tbl[f] EXCEPT !.deletedAt = 1] ELSE tbl[f]]

\* DatabaseStorage.permanentlyDelete, type 'file': DELETE FROM files WHERE id
permanentlyDeleteFile(tbl, id) == [f \in DOMAIN tbl \ {id} |-> tbl[f]]

\* The folders removed with folder id: itself and, by the foreign key
\* folders.parent_id ON DELETE CASCADE, every folder below it
RECURSIVE Below(_, _)
Below(S, n) ==
    IF n = 0 THEN S
    ELSE Below(S \cup {f \in DOMAIN folders : folders[f].parentId \in S}, n - 1)

Cascade(id) == Below({id} \cap DOMAIN folders, Cardinality(DOMAIN folders))

\* DatabaseStorage.permanentlyDelete, type 'folder': the folders table after
permanentlyDeleteFolder(id) ==
    [f \in DOMAIN folders \ Cascade(id) |-> folders[f]]

\* the files table after, had files.folder_id been ON DELETE CASCADE
SetNullFiles_Cascade(id) ==
    [f \in {g \in DOMAIN files : files[g].folderId \notin Cascade(id)} |->
        files[f]]

\* ... and the files table after: files.folder_id ON DELETE SET NULL
SetNullFiles(id) ==
    [f \in DOMAIN files |->
        IF files[f].folderId \in Cascade(id)
        THEN [files[f] EXCEPT !.folderId = Null]
        ELSE files[f]]

\* getFilesByFolder without isNull(files.deletedAt)
getFilesByFolder_WithTrashed(folderId, ownerId) ==
    {files[f] : f \in {g \in DOMAIN files :
        /\ IF folderId # Null THEN files[g].folderId = folderId
                              ELSE files[g].folderId = Null
        /\ files[g].ownerId = ownerId}}

\* DatabaseStorage.getFilesByFolder: the rows selected
getFilesByFolder(folderId, ownerId) ==
    {files[f] : f \in {g \in DOMAIN files :
        /\ IF folderId # Null THEN files[g].folderId = folderId
                              ELSE files[g].folderId = Null
        /\ files[g].ownerId = ownerId
        /\ files[g].deletedAt = Null}}

\* DatabaseStorage.getFoldersByParent
getFoldersByParent(parentId, ownerId) ==
    {folders[f] : f \in {g \in DOMAIN folders :
        /\ IF parentId # Null THEN folders[g].parentId = parentId
                              ELSE folders[g].parentId = Null
        /\ folders[g].ownerId = ownerId
        /\ folders[g].deletedAt = Null}}

\* the characters of a name of the model
Chars(name) ==
    CASE name = "report" -> <<"r", "e", "p", "o", "r", "t">>
      [] name = "photo" -> <<"p", "h", "o", "t", "o">>
      [] name = "renamed" -> <<"r", "e", "n", "a", "m", "e", "d">>
      [] OTHER -> <<>>

\* SQL `text LIKE pattern`: in the pattern % stands for any run of
\* characters, _ for any one character, another character for itself
RECURSIVE Like(_, _)
Like(text, pattern) ==
    IF pattern = <<>> THEN text = <<>>
    ELSE IF Head(pattern) = "%"
    THEN \E k \in 0..Len(text) :
            Like(SubSeq(text, k + 1, Len(text)), Tail(pattern))
    ELSE IF text = <<>> THEN FALSE
    ELSE /\ Head(pattern) = "_" \/ Head(pattern) = Head(text)
         /\ Like(Tail(text), Tail(pattern))

\* typePatterns of searchFiles: the extensions of each category
typePatterns ==
    [image |-> {"jpg", "jpeg", "png", "gif", "webp", "svg"},
     video |-> {"mp4", "mov", "avi", "mkv", "webm"},
     audio |-> {"mp3", "wav", "ogg", "m4a", "flac"},
     document |-> {"pdf", "doc", "docx", "txt", "rtf"},
     archive |-> {"zip", "rar", "7z", "tar", "gz"}]

\* DatabaseStorage.searchFiles: the ids of the rows selected by
\* owner_id = ownerId AND deleted_at IS NULL AND name LIKE `%${query}%`,
\* AND ext = filters.ext if one is given, AND ext IN the category's
\* extensions if filters.type names a category ("" = not given)
searchFiles(query, ownerId, type, ext) ==
    {f \in DOMAIN files :
        /\ files[f].ownerId = ownerId
        /\ files[f].deletedAt = Null
        /\ Like(Chars(files[f].name), <<"%">> \o query \o <<"%">>)
        /\ ext # "" => files[f].ext = ext
        /\ (type # "" /\ type \in DOMAIN typePatterns)
           => files[f].ext \in typePatterns[type]}

\* `isNull(files.deletedAt) === false` in getTrashItems: JavaScript compares
\* the SQL expression object that isNull returns with false before the query
\* is built, so the condition handed to and() is the boolean false
IsNullEqualsFalse == FALSE

\* DatabaseStorage.getTrashItems: the rows selected by
\* WHERE owner_id = ownerId AND <the condition above>, for each table
\* (orderBy(desc(deletedAt)) orders the rows selected)
getTrashItems(ownerId) ==
    [files |-> {files[f] : f \in {g \in DOMAIN files :
                    files[g].ownerId = ownerId /\ IsNullEqualsFalse}},
     folders |-> {folders[f] : f \in {g \in DOMAIN folders :
                    folders[g].ownerId = ownerId /\ IsNullEqualsFalse}}]

\* createAuditLog keeping one entry per target: an entry about the same
\* target is replaced by the new one
createAuditLog_Upsert(userId, action, targetType, targetId) ==
    LET entry == [userId |-> userId, action |-> action,
                  targetType |-> targetType, targetId |-> targetId]
        same(i) == /\ auditLogs[i].targetType = targetType
                   /\ auditLogs[i].targetId = targetId
    IN IF \E i \in DOMAIN auditLogs : same(i)
       THEN [i \in DOMAIN auditLogs |-> IF same(i) THEN entry ELSE auditLogs[i]]
       ELSE Append(auditLogs, entry)

\* DatabaseStorage.createAuditLog (the entry's meta and createdAt, which no
\* operation of the core reads, are not carried)
createAuditLog(userId, action, targetType, targetId) ==
    Append(auditLogs, [userId |-> userId, action |-> action,
                       targetType |-> targetType, targetId |-> targetId])

---------------------------------------------------------------------------
(* The object store adapter.  A call to the backing medium either returns  *)
(* or throws; it can fail for reasons outside the program (network, disk), *)
(* so each call that reaches the medium has a failing outcome that changes *)
(* nothing.  An outcome is [ok, objects, uploads, uploadId]: whether the   *)
(* call returned, the store after it, and the upload id it returned.       *)

Without(key) == [k \in DOMAIN objects \ {key} |-> objects[k]]

With(key, buffer) == [k \in DOMAIN objects \cup {key} |->
                         IF k = key THEN buffer ELSE objects[k]]

Outcome(ok, objs, ups, uploadId) ==
    [ok |-> ok, objects |-> objs, uploads |-> ups, uploadId |-> uploadId]

Threw == Outcome(FALSE, objects, uploads, Null)

\* S3StorageService.uploadFile: PutObject
S3uploadFile(key, buffer) ==
    {Outcome(TRUE, With(key, buffer), uploads, Null), Threw}

\* LocalStorageService.uploadFile: mkdir -p, writeFile
LocaluploadFile(key, buffer) ==
    {Outcome(TRUE, With(key, buffer), uploads, Null), Threw}

\* S3StorageService.deleteFile: DeleteObject answers 204 whether or not the
\* key holds an object
S3deleteFile(key) == {Outcome(TRUE, Without(key), uploads, Null), Threw}

\* LocalStorageService.deleteFile: fs.unlink rejects with ENOENT when the
\* path does not exist
LocaldeleteFile(key) ==
    IF key \in DOMAIN objects
    THEN {Outcome(TRUE, Without(key), uploads, Null), Threw}
    ELSE {Threw}

\* S3StorageService.createMultipartUpload: CreateMultipartUpload opens an
\* upload for the key and returns its UploadId
S3createMultipartUpload(key) ==
    {Outcome(TRUE, objects,
             uploads @@ (nextUuid :> [key |-> key, parts |-> <<>>]), nextUuid),
     Threw}

\* LocalStorageService.createMultipartUpload: a random id and ten URLs,
\* nothing is opened
LocalcreateMultipartUpload(key) == {Outcome(TRUE, objects, uploads, nextUuid)}

\* the ETag the store gives a transferred part
ETagOf(bytes) == <<"md5">> \o bytes

RECURSIVE Assemble(_, _)
Assemble(up, parts) ==
    IF parts = <<>> THEN <<>>
    ELSE up.parts[Head(parts).PartNumber] \o Assemble(up, Tail(parts))

\* what CompleteMultipartUpload requires of its request
PartsAccepted(key, uploadId, parts) ==
    /\ uploadId \in DOMAIN uploads
    /\ uploads[uploadId].key = key
    /\ parts # <<>>
    /\ \A i \in 1..(Len(parts) - 1) : parts[i].PartNumber < parts[i + 1].PartNumber
    /\ \A i \in 1..Len(parts) :
         /\ parts[i].PartNumber \in DOMAIN uploads[uploadId].parts
         /\ parts[i].ETag = ETagOf(uploads[uploadId].parts[parts[i].PartNumber])

\* S3StorageService.completeMultipartUpload: CompleteMultipartUpload
S3completeMultipartUpload(key, uploadId, parts) ==
    IF PartsAccepted(key, uploadId, parts)
    THEN {Outcome(TRUE, With(key, Assemble(uploads[uploadId], parts)),
                  [u \in DOMAIN uploads \ {uploadId} |-> uploads[u]], Null),
          Threw}
    ELSE {Threw}

\* LocalStorageService.completeMultipartUpload: an empty body
LocalcompleteMultipartUpload(key, uploadId, parts) ==
    {Outcome(TRUE, objects, uploads, Null)}

\* S3StorageService.getFile: GetObject answers NoSuchKey for a key that
\* holds no object.  A read returns [ok, buffer].
S3getFile(key) ==
    IF key \in DOMAIN objects
    THEN {[ok |-> TRUE, buffer |-> objects[key]], [ok |-> FALSE, buffer |-> <<>>]}
    ELSE {[ok |-> FALSE, buffer |-> <<>>]}

\* LocalStorageService.getFile: fs.readFile rejects with ENOENT when the
\* path does not exist
LocalgetFile(key) ==
    IF key \in DOMAIN objects
    THEN {[ok |-> TRUE, buffer |-> objects[key]], [ok |-> FALSE, buffer |-> <<>>]}
    ELSE {[ok |-> FALSE, buffer |-> <<>>]}

storageService_getFile(key) ==
    IF driver = "s3" THEN S3getFile(key) ELSE LocalgetFile(key)

\* the exported storageService: the driver chosen at start
storageService_uploadFile(key, buffer) ==
    IF driver = "s3" THEN S3uploadFile(key, buffer) ELSE LocaluploadFile(key, buffer)

storageService_deleteFile(key) ==
    IF driver = "s3" THEN S3deleteFile(key) ELSE LocaldeleteFile(key)

storageService_createMultipartUpload(key) ==
    IF driver = "s3" THEN S3createMultipartUpload(key)
    ELSE LocalcreateMultipartUpload(key)

storageService_completeMultipartUpload(key, uploadId, parts) ==
    IF driver = "s3" THEN S3completeMultipartUpload(key, uploadId, parts)
    ELSE LocalcompleteMultipartUpload(key, uploadId, parts)

---------------------------------------------------------------------------
(* Request processes.  A frame holds a handler's parameters and the locals *)
(* it reads after an await.  A handler's first action is the request's     *)
(* arrival up to the result of its first awaited call; its last action     *)
(* leaves the response in the frame, and Respond hands it to the client.   *)

Idle ==
    [op |-> "idle", pc |-> "idle", user |-> "", type |-> "", id |-> Null,
     ids |-> <<>>, folderId |-> Null, name |-> "", filename |-> "",
     size |-> 0, result |-> {}, buffer |-> <<>>, storageKey |-> NoKey,
     owner |-> "", uploadId |-> Null, expiresAt |-> Null, password |-> "",
     query |-> <<>>, ext |-> "", batch |-> <<>>, valid |-> <<>>,
     archive |-> <<>>,
     parts |-> <<>>, storage |-> "", status |-> 0, err |-> ""]

Running == {p \in DOMAIN reqs : reqs[p].pc \notin {"idle", "reply"}}

At(p, op, pc) == reqs[p].op = op /\ reqs[p].pc = pc

\* the handler with frame f answers `status`; err is the message of the
\* Error it caught, "" if none
Reply(p, f, status, err) ==
    reqs' = [reqs EXCEPT ![p] = [f EXCEPT !.pc = "reply", !.status = status,
                                          !.err = err]]

\* the handler goes on with frame f
Goto(p, f) == reqs' = [reqs EXCEPT ![p] = f]

\* audit entries the handlers of the processes in S may still append
RECURSIVE PendingIn(_)
PendingIn(S) ==
    IF S = {} THEN 0
    ELSE LET p == CHOOSE q \in S : TRUE
         IN 1 + Len(reqs[p].ids) + PendingIn(S \ {p})

\* a handler is entered only while the model has room for what it may add;
\* a request is served by the first idle process (the processes are
\* interchangeable)
Room(p, nIds) ==
    /\ reqs[p].pc = "idle"
    /\ \A q \in DOMAIN reqs : q < p => reqs[q].pc # "idle"
    /\ Len(auditLogs) + PendingIn(Running) + nIds <= MaxAudit

\* ... and for the rows and random values the running handlers may still
\* draw
RoomForFile(p, nUuid) ==
    /\ Room(p, 1)
    /\ nextFileId
         + Cardinality({q \in Running : At(q, "uploadLocal", "createFile")})
         <= MaxFiles
    /\ nextUuid
         + Cardinality({q \in Running :
                          At(q, "initializeUpload", "createMultipart")})
         + nUuid <= MaxUuid + 1

\* the id lists of a restore or purge request
RECURSIVE SeqsUpTo(_, _)
SeqsUpTo(S, n) ==
    IF n = 0 THEN {<<>>}
    ELSE LET shorter == SeqsUpTo(S, n - 1)
         IN shorter \cup {Append(q, x) : q \in shorter, x \in S}

IdLists(S) == SeqsUpTo(S, MaxBatch) \ {<<>>}

\* the next id of the loop `for (const id of ids)`
NextId(f, pc) == [f EXCEPT !.pc = pc, !.id = Head(f.ids), !.ids = Tail(f.ids),
                           !.storageKey = NoKey, !.storage = ""]

db == <<files, folders>>
store == <<objects, uploads>>
fresh == <<nextFileId, nextFolderId, nextUuid>>
shares == <<shareLinks, nextShareId>>

\* time passes
Tick ==
    /\ now < MaxTime
    /\ now' = now + 1
    /\ UNCHANGED <<driver, shares, db, auditLogs, store, fresh, reqs>>

\* res.json / res.sendStatus reaches the client
Respond(p) ==
    /\ reqs[p].pc = "reply"
    /\ reqs' = [reqs EXCEPT ![p] = Idle]
    /\ UNCHANGED <<driver, shares, db, auditLogs, store, now, fresh>>

---------------------------------------------------------------------------
(* POST /api/upload/local -> FileService.uploadLocal *)

\* uploadLocal creating the record without writing to the store first
UploadLocal_RecordFirst(p, FolderInputs) ==
    /\ RoomForFile(p, 1)
    /\ \E user \in Users, filename \in Filenames, buffer \in Buffers,
          folderId \in FolderInputs :
         LET key == generateStorageKey(user, filename, nextUuid)
             f == [Idle EXCEPT !.op = "uploadLocal", !.user = user,
                               !.filename = filename, !.buffer = buffer,
                               !.folderId = folderId]
         IN /\ Goto(p, [f EXCEPT !.pc = "createFile", !.storageKey = key])
            /\ nextUuid' = nextUuid + 1
    /\ UNCHANGED <<driver, shares, db, auditLogs, store, now, nextFileId,
                   nextFolderId>>

\* generateStorageKey, calculateChecksum, await storageService.uploadFile
\* (a key whose upload threw is never stored: its uuid is not counted)
UploadLocal(p, FolderInputs) ==
    /\ RoomForFile(p, 1)
    /\ \E user \in Users, filename \in Filenames, buffer \in Buffers,
          folderId \in FolderInputs :
         LET key == generateStorageKey(user, filename, nextUuid)
             f == [Idle EXCEPT !.op = "uploadLocal", !.user = user,
                               !.filename = filename, !.buffer = buffer,
                               !.folderId = folderId]
         IN \E out \in storageService_uploadFile(key, buffer) :
              /\ objects' = out.objects
              /\ IF out.ok
                 THEN /\ Goto(p, [f EXCEPT !.pc = "createFile", !.storageKey = key])
                      /\ nextUuid' = nextUuid + 1
                 ELSE /\ Reply(p, f, 500, "StorageUnavailable")
                      /\ UNCHANGED nextUuid
    /\ UNCHANGED <<driver, shares, db, auditLogs, uploads, now, nextFileId, nextFolderId>>

\* await storage.createFile
UploadLocal_CreateFile(p) ==
    /\ At(p, "uploadLocal", "createFile")
    /\ LET f == reqs[p]
           ext == ExtName(f.filename)
           row == [name |-> BaseName(f.filename), ext |-> Slice1(ext),
                   mime |-> getMimeTypeFromExtension(ext),
                   size |-> Len(f.buffer), storageKey |-> f.storageKey,
                   checksum |-> calculateChecksum(f.buffer),
                   ownerId |-> f.user, folderId |-> f.folderId]
       IN IF FolderFkOk(f.folderId)
          THEN /\ files' = createFile(row)
               /\ nextFileId' = nextFileId + 1
               /\ Goto(p, [f EXCEPT !.pc = "audit", !.id = nextFileId])
          ELSE /\ Reply(p, f, 500, "ForeignKeyViolation")
               /\ UNCHANGED <<files, nextFileId>>
    /\ UNCHANGED <<driver, shares, folders, auditLogs, store, now,
                   nextFolderId, nextUuid>>

\* await storage.createAuditLog, res.json(result)
UploadLocal_Audit(p) ==
    /\ At(p, "uploadLocal", "audit")
    /\ auditLogs' = createAuditLog(reqs[p].user, "file_uploaded", "file", reqs[p].id)
    /\ Reply(p, reqs[p], 200, "")
    /\ UNCHANGED <<driver, shares, db, store, now, fresh>>

---------------------------------------------------------------------------
(* POST /api/upload/init -> FileService.initializeUpload *)

\* body.folderId, body.parentId: any id, or none
AnyFolder == FolderIds \cup {Null}

\* POST /api/upload/init with a schema of filename: z.string() and
\* size: z.number()
InitUpload_NoValidation(p, NameInputs, SizeInputs, FolderInputs) ==
    /\ RoomForFile(p, 2)
    /\ \E user \in Users, filename \in NameInputs,
          size \in SizeInputs, folderId \in FolderInputs :
         LET key == generateStorageKey(user, filename, nextUuid)
             ext == ExtName(filename)
             f == [Idle EXCEPT !.op = "initializeUpload", !.user = user,
                               !.filename = filename, !.size = size,
                               !.folderId = folderId]
             row == [name |-> BaseName(filename), ext |-> Slice1(ext),
                     mime |-> getMimeTypeFromExtension(ext),
                     size |-> size, storageKey |-> key,
                     checksum |-> NoChecksum,
                     ownerId |-> user, folderId |-> folderId]
         IN IF FolderFkOk(folderId)
            THEN /\ files' = createFile(row)
                 /\ nextFileId' = nextFileId + 1
                 /\ nextUuid' = nextUuid + 1
                 /\ Goto(p, [f EXCEPT !.pc = "createMultipart",
                                      !.id = nextFileId, !.storageKey = key])
            ELSE /\ Reply(p, f, 500, "ForeignKeyViolation")
                 /\ UNCHANGED <<files, nextFileId, nextUuid>>
    /\ UNCHANGED <<driver, shares, folders, auditLogs, store, now, nextFolderId>>

\* schema.parse, generateStorageKey, await storage.createFile
InitUpload(p, NameInputs, SizeInputs, FolderInputs) ==
    /\ RoomForFile(p, 2)
    /\ \E user \in Users, filename \in NameInputs,
          size \in SizeInputs, folderId \in FolderInputs :
         LET key == generateStorageKey(user, filename, nextUuid)
             ext == ExtName(filename)
             f == [Idle EXCEPT !.op = "initializeUpload", !.user = user,
                               !.filename = filename, !.size = size,
                               !.folderId = folderId]
             row == [name |-> BaseName(filename), ext |-> Slice1(ext),
                     mime |-> getMimeTypeFromExtension(ext),
                     size |-> size, storageKey |-> key,
                     checksum |-> NoChecksum,
                     ownerId |-> user, folderId |-> folderId]
         IN IF filename = "" \/ size <= 0
            THEN /\ Reply(p, f, 400, "Invalid input")
                 /\ UNCHANGED <<files, nextFileId, nextUuid>>
            ELSE IF FolderFkOk(folderId)
            THEN /\ files' = createFile(row)
                 /\ nextFileId' = nextFileId + 1
                 /\ nextUuid' = nextUuid + 1
                 /\ Goto(p, [f EXCEPT !.pc = "createMultipart",
                                      !.id = nextFileId, !.storageKey = key])
            ELSE /\ Reply(p, f, 500, "ForeignKeyViolation")
                 /\ UNCHANGED <<files, nextFileId, nextUuid>>
    /\ UNCHANGED <<driver, shares, folders, auditLogs, store, now, nextFolderId>>

\* await storageService.createMultipartUpload
InitUpload_CreateMultipart(p) ==
    /\ At(p, "initializeUpload", "createMultipart")
    /\ \E out \in storageService_createMultipartUpload(reqs[p].storageKey) :
         /\ uploads' = out.uploads
         /\ IF out.ok
            THEN /\ Goto(p, [reqs[p] EXCEPT !.pc = "audit",
                                            !.uploadId = out.uploadId])
                 /\ nextUuid' = nextUuid + 1
            ELSE /\ Reply(p, reqs[p], 500, "StorageUnavailable")
                 /\ UNCHANGED nextUuid
    /\ UNCHANGED <<driver, shares, db, auditLogs, objects, now, nextFileId, nextFolderId>>

\* await storage.createAuditLog, res.json(result)
InitUpload_Audit(p) ==
    /\ At(p, "initializeUpload", "audit")
    /\ auditLogs' = createAuditLog(reqs[p].user, "file_upload_initiated",
                                   "file", reqs[p].id)
    /\ Reply(p, reqs[p], 200, "")
    /\ UNCHANGED <<driver, shares, db, store, now, fresh>>

\* the client PUTs bytes to one of the presigned part URLs of an open
\* upload (the local driver's part URLs name no route of the server)
ClientUploadPart ==
    /\ driver = "s3"
    /\ \E u \in DOMAIN uploads, n \in 1..MaxParts, bytes \in PartBytes :
         /\ n <= PresignedParts
         /\ n \notin DOMAIN uploads[u].parts
         /\ uploads' = [uploads EXCEPT ![u].parts = @ @@ (n :> bytes)]
    /\ UNCHANGED <<driver, shares, db, auditLogs, objects, now, fresh, reqs>>

---------------------------------------------------------------------------
(* POST /api/upload/complete -> FileService.completeUpload *)

\* body.parts: lists of {ETag, PartNumber}
PartLists ==
    SeqsUpTo({[ETag |-> e, PartNumber |-> n] :
                 e \in {ETagOf(b) : b \in PartBytes} \cup {<<"bad">>},
                 n \in 1..MaxParts},
             MaxParts)

\* completeUpload without `if (!file) throw new Error("File not found")`
CompleteUpload_NoLookupCheck(p, UserInputs, UploadIdInputs, PartsInputs) ==
    /\ Room(p, 1)
    /\ \E user \in UserInputs, fileId \in FileIds, uploadId \in UploadIdInputs,
          parts \in PartsInputs :
         LET file == getFileById(fileId)
             f == [Idle EXCEPT !.op = "completeUpload", !.user = user,
                               !.id = fileId, !.uploadId = uploadId,
                               !.parts = parts]
         IN Goto(p, [f EXCEPT !.pc = "complete",
                              !.storageKey = file.storageKey,
                              !.owner = file.ownerId])
    /\ UNCHANGED <<driver, shares, db, auditLogs, store, now, fresh>>

\* completeUpload holding a per-file lock: a second completion of a file
\* whose completion is in flight is refused
CompleteUpload_Exclusive(p, UserInputs, UploadIdInputs, PartsInputs) ==
    /\ Room(p, 1)
    /\ \E user \in UserInputs, fileId \in FileIds, uploadId \in UploadIdInputs,
          parts \in PartsInputs :
         LET file == getFileById(fileId)
             f == [Idle EXCEPT !.op = "completeUpload", !.user = user,
                               !.id = fileId, !.uploadId = uploadId,
                               !.parts = parts]
         IN IF file = NoFile
            THEN Reply(p, f, 500, "File not found")
            ELSE IF \E q \in Running : reqs[q].op = "completeUpload"
                                       /\ reqs[q].id = fileId
            THEN Reply(p, f, 409, "Conflict")
            ELSE Goto(p, [f EXCEPT !.pc = "complete",
                                   !.storageKey = file.storageKey,
                                   !.owner = file.ownerId])
    /\ UNCHANGED <<driver, shares, db, auditLogs, store, now, fresh>>

\* schema.parse, await storage.getFileById
CompleteUpload(p, UserInputs, UploadIdInputs, PartsInputs) ==
    /\ Room(p, 1)
    /\ \E user \in UserInputs, fileId \in FileIds, uploadId \in UploadIdInputs,
          parts \in PartsInputs :
         LET file == getFileById(fileId)
             f == [Idle EXCEPT !.op = "completeUpload", !.user = user,
                               !.id = fileId, !.uploadId = uploadId,
                               !.parts = parts]
         IN IF file = NoFile
            THEN Reply(p, f, 500, "File not found")
            ELSE Goto(p, [f EXCEPT !.pc = "complete",
                                   !.storageKey = file.storageKey,
                                   !.owner = file.ownerId])
    /\ UNCHANGED <<driver, shares, db, auditLogs, store, now, fresh>>

\* await storageService.completeMultipartUpload
CompleteUpload_Complete(p) ==
    /\ At(p, "completeUpload", "complete")
    /\ \E out \in storageService_completeMultipartUpload(
                     reqs[p].storageKey, reqs[p].uploadId, reqs[p].parts) :
         /\ objects' = out.objects
         /\ uploads' = out.uploads
         /\ IF out.ok
            THEN Goto(p, [reqs[p] EXCEPT !.pc = "audit"])
            ELSE Reply(p, reqs[p], 500, "StorageUnavailable")
    /\ UNCHANGED <<driver, shares, db, auditLogs, now, fresh>>

\* await storage.createAuditLog, res.json(result)
CompleteUpload_Audit(p) ==
    /\ At(p, "completeUpload", "audit")
    /\ auditLogs' = createAuditLog(reqs[p].owner, "file_uploaded", "file", reqs[p].id)
    /\ Reply(p, reqs[p], 200, "")
    /\ UNCHANGED <<driver, shares, db, store, now, fresh>>

---------------------------------------------------------------------------
(* GET /api/files/:id/download *)

\* await storage.getFileById, the ownership check
Download(p) ==
    /\ Room(p, 1)
    /\ \E user \in Users, id \in FileIds :
         LET file == getFileById(id)
             f == [Idle EXCEPT !.op = "download", !.user = user,
                               !.type = "file", !.id = id]
         IN IF file = NoFile \/ file.ownerId # user
            THEN Reply(p, f, 404, "File not found")
            ELSE Goto(p, [f EXCEPT !.pc = "fetch",
                                   !.storageKey = file.storageKey])
    /\ UNCHANGED <<driver, shares, db, auditLogs, store, now, fresh>>

\* networked driver: await fileService.getDownloadUrl (the row is read
\* again, the URL is signed locally), res.redirect; local driver: await
\* storageService.getFile (fs.readFile), res.send
Download_Fetch(p) ==
    /\ At(p, "download", "fetch")
    /\ IF driver = "s3"
       THEN IF reqs[p].id \in DOMAIN files
            THEN Goto(p, [reqs[p] EXCEPT !.pc = "audit", !.status = 302])
            ELSE Reply(p, reqs[p], 500, "File not found")
       ELSE \/ /\ reqs[p].storageKey \in DOMAIN objects
               /\ Goto(p, [reqs[p] EXCEPT !.pc = "audit", !.status = 200,
                                !.buffer = objects[reqs[p].storageKey]])
            \/ Reply(p, reqs[p], 500, "StorageUnavailable")
    /\ UNCHANGED <<driver, shares, db, auditLogs, store, now, fresh>>

\* await storage.createAuditLog, after the response was sent
Download_Audit(p) ==
    /\ At(p, "download", "audit")
    /\ auditLogs' = createAuditLog(reqs[p].user, "file_downloaded", "file",
                                   reqs[p].id)
    /\ Reply(p, reqs[p], reqs[p].status, "")
    /\ UNCHANGED <<driver, shares, db, store, now, fresh>>

---------------------------------------------------------------------------
(* DELETE /api/files/:id -> FileService.deleteFile *)

\* await storage.getFileById and the two checks
\* FileService.deleteFile without the comparison of the owner
DeleteFile_NoOwnerCheck(p) ==
    /\ Room(p, 1)
    /\ \E user \in Users, id \in FileIds :
         LET file == getFileById(id)
             f == [Idle EXCEPT !.op = "deleteFile", !.user = user,
                               !.type = "file", !.id = id]
         IN IF file = NoFile THEN Reply(p, f, 404, "File not found")
            ELSE Goto(p, [f EXCEPT !.pc = "softDelete",
                                   !.storageKey = file.storageKey])
    /\ UNCHANGED <<driver, shares, db, auditLogs, store, now, fresh>>

DeleteFile(p) ==
    /\ Room(p, 1)
    /\ \E user \in Users, id \in FileIds :
         LET file == getFileById(id)
             f == [Idle EXCEPT !.op = "deleteFile", !.user = user,
                               !.type = "file", !.id = id]
         IN IF file = NoFile THEN Reply(p, f, 404, "File not found")
            ELSE IF file.ownerId # user THEN Reply(p, f, 403, "Unauthorized")
            ELSE Goto(p, [f EXCEPT !.pc = "softDelete",
                                   !.storageKey = file.storageKey])
    /\ UNCHANGED <<driver, shares, db, auditLogs, store, now, fresh>>

\* await storage.deleteFile
DeleteFile_SoftDelete(p) ==
    /\ At(p, "deleteFile", "softDelete")
    /\ files' = deleteFile(files, reqs[p].id, now)
    /\ Goto(p, [reqs[p] EXCEPT !.pc = "audit"])
    /\ UNCHANGED <<driver, shares, folders, auditLogs, store, now, fresh>>

\* await storage.createAuditLog, res.sendStatus(204)
DeleteFile_Audit(p) ==
    /\ At(p, "deleteFile", "audit")
    /\ auditLogs' = createAuditLog(reqs[p].user, "file_deleted", "file", reqs[p].id)
    /\ Reply(p, reqs[p], 204, "")
    /\ UNCHANGED <<driver, shares, db, store, now, fresh>>

---------------------------------------------------------------------------
(* POST /api/trash/purge: for each id, FileService.permanentlyDeleteFile   *)
(* (type file) or storage.permanentlyDelete (type folder).  An error       *)
(* thrown ends the loop in the handler's catch, which answers 500.         *)

\* schema.parse; the loop starts
Purge(p, TypeInputs) ==
    /\ \E user \in Users, type \in TypeInputs :
       \E ids \in IdLists(IF type = "file" THEN FileIds ELSE FolderIds) :
         /\ Room(p, Len(ids))
         /\ Goto(p, NextId([Idle EXCEPT !.op = "purge", !.user = user,
                                        !.type = type, !.ids = ids],
                           IF type = "file" THEN "get" ELSE "dbDeleteFolder"))
    /\ UNCHANGED <<driver, shares, db, auditLogs, store, now, fresh>>

\* permanentlyDeleteFile without `if (file.ownerId !== ownerId) throw`
PurgeFile_Get_NoOwnerCheck(p) ==
    /\ At(p, "purge", "get")
    /\ LET file == getFileById(reqs[p].id)
       IN IF file = NoFile THEN Reply(p, reqs[p], 500, "File not found")
          ELSE Goto(p, [reqs[p] EXCEPT !.pc = "storageDelete",
                                       !.storageKey = file.storageKey])
    /\ UNCHANGED <<driver, shares, db, auditLogs, store, now, fresh>>

\* permanentlyDeleteFile: await storage.getFileById and the two checks
PurgeFile_Get(p) ==
    /\ At(p, "purge", "get")
    /\ LET file == getFileById(reqs[p].id)
       IN IF file = NoFile THEN Reply(p, reqs[p], 500, "File not found")
          ELSE IF file.ownerId # reqs[p].user
          THEN Reply(p, reqs[p], 500, "Unauthorized")
          ELSE Goto(p, [reqs[p] EXCEPT !.pc = "storageDelete",
                                       !.storageKey = file.storageKey])
    /\ UNCHANGED <<driver, shares, db, auditLogs, store, now, fresh>>

\* permanentlyDeleteFile without the try/catch: a failed delete ends the purge
PurgeFile_StorageDelete_Rethrow(p) ==
    /\ At(p, "purge", "storageDelete")
    /\ \E out \in storageService_deleteFile(reqs[p].storageKey) :
         /\ objects' = out.objects
         /\ IF out.ok
            THEN Goto(p, [reqs[p] EXCEPT !.pc = "dbDeleteFile",
                                         !.storage = "deleted"])
            ELSE Reply(p, [reqs[p] EXCEPT !.storage = "failed"], 500,
                       "StorageUnavailable")
    /\ UNCHANGED <<driver, shares, db, auditLogs, uploads, now, fresh>>

\* permanentlyDeleteFile with the storage delete left out
PurgeFile_StorageDelete_Skipped(p) ==
    /\ At(p, "purge", "storageDelete")
    /\ Goto(p, [reqs[p] EXCEPT !.pc = "dbDeleteFile"])
    /\ UNCHANGED <<driver, shares, db, auditLogs, store, now, fresh>>

\* try { await storageService.deleteFile } catch { console.error }
PurgeFile_StorageDelete(p) ==
    /\ At(p, "purge", "storageDelete")
    /\ \E out \in storageService_deleteFile(reqs[p].storageKey) :
         /\ objects' = out.objects
         /\ Goto(p, [reqs[p] EXCEPT !.pc = "dbDeleteFile",
                         !.storage = IF out.ok THEN "deleted" ELSE "failed"])
    /\ UNCHANGED <<driver, shares, db, auditLogs, uploads, now, fresh>>

\* await storage.permanentlyDelete(fileId, "file")
PurgeFile_DbDelete(p) ==
    /\ At(p, "purge", "dbDeleteFile")
    /\ files' = permanentlyDeleteFile(files, reqs[p].id)
    /\ Goto(p, [reqs[p] EXCEPT !.pc = "audit"])
    /\ UNCHANGED <<driver, shares, folders, auditLogs, store, now, fresh>>

\* await storage.createAuditLog; then the next id, or res.sendStatus(200)
PurgeFile_Audit(p) ==
    /\ At(p, "purge", "audit")
    /\ auditLogs' = createAuditLog(reqs[p].user, "file_permanently_deleted",
                                   "file", reqs[p].id)
    /\ IF reqs[p].ids = <<>> THEN Reply(p, reqs[p], 200, "")
       ELSE Goto(p, NextId(reqs[p], "get"))
    /\ UNCHANGED <<driver, shares, db, store, now, fresh>>

\* await storage.permanentlyDelete(id, "folder"); next id, or 200
PurgeFolder_DbDelete(p) ==
    /\ At(p, "purge", "dbDeleteFolder")
    /\ folders' = permanentlyDeleteFolder(reqs[p].id)
    /\ files' = SetNullFiles(reqs[p].id)
    /\ IF reqs[p].ids = <<>> THEN Reply(p, reqs[p], 200, "")
       ELSE Goto(p, NextId(reqs[p], "dbDeleteFolder"))
    /\ UNCHANGED <<driver, shares, auditLogs, store, now, fresh>>

---------------------------------------------------------------------------
(* POST /api/trash/restore: for each id, storage.restoreFromTrash and an   *)
(* audit entry.                                                            *)

Restore(p, TypeInputs) ==
    /\ \E user \in Users, type \in TypeInputs :
       \E ids \in IdLists(IF type = "file" THEN FileIds ELSE FolderIds) :
         /\ Room(p, Len(ids))
         /\ Goto(p, NextId([Idle EXCEPT !.op = "restore", !.user = user,
                                        !.type = type, !.ids = ids], "update"))
    /\ UNCHANGED <<driver, shares, db, auditLogs, store, now, fresh>>

\* await storage.restoreFromTrash(id, type)
Restore_Update(p) ==
    /\ At(p, "restore", "update")
    /\ IF reqs[p].type = "file"
       THEN files' = restoreFromTrash(files, reqs[p].id, now) /\ UNCHANGED folders
       ELSE folders' = restoreFromTrash(folders, reqs[p].id, now) /\ UNCHANGED files
    /\ Goto(p, [reqs[p] EXCEPT !.pc = "audit"])
    /\ UNCHANGED <<driver, shares, auditLogs, store, now, fresh>>

\* await storage.createAuditLog; then the next id, or res.sendStatus(200)
Restore_Audit(p) ==
    /\ At(p, "restore", "audit")
    /\ auditLogs' = createAuditLog(reqs[p].user,
                        IF reqs[p].type = "file" THEN "file_restored"
                                                 ELSE "folder_restored",
                        reqs[p].type, reqs[p].id)
    /\ IF reqs[p].ids = <<>> THEN Reply(p, reqs[p], 200, "")
       ELSE Goto(p, NextId(reqs[p], "update"))
    /\ UNCHANGED <<driver, shares, db, store, now, fresh>>

---------------------------------------------------------------------------
(* PATCH /api/files/:id *)

\* schema.parse, await storage.getFileById, the ownership check
PatchFile(p, NameInputs) ==
    /\ Room(p, 1)
    /\ \E user \in Users, id \in FileIds, name \in NameInputs,
          folderId \in FolderIds \cup {Null} :
         LET file == getFileById(id)
             f == [Idle EXCEPT !.op = "patchFile", !.user = user, !.type = "file",
                               !.id = id, !.name = name, !.folderId = folderId]
         IN IF file = NoFile \/ file.ownerId # user
            THEN Reply(p, f, 404, "File not found")
            ELSE Goto(p, [f EXCEPT !.pc = "update"])
    /\ UNCHANGED <<driver, shares, db, auditLogs, store, now, fresh>>

\* await storage.updateFile
PatchFile_Update(p) ==
    /\ At(p, "patchFile", "update")
    /\ IF FolderFkOk(reqs[p].folderId)
       THEN /\ files' = updateFile(files, reqs[p].id, reqs[p].name,
                                   reqs[p].folderId, now)
            /\ Goto(p, [reqs[p] EXCEPT !.pc = "audit"])
       ELSE /\ Reply(p, reqs[p], 500, "ForeignKeyViolation")
            /\ UNCHANGED files
    /\ UNCHANGED <<driver, shares, folders, auditLogs, store, now, fresh>>

\* await storage.createAuditLog, res.json(updatedFile)
PatchFile_Audit(p) ==
    /\ At(p, "patchFile", "audit")
    /\ auditLogs' = createAuditLog(reqs[p].user, "file_updated", "file", reqs[p].id)
    /\ Reply(p, reqs[p], 200, "")
    /\ UNCHANGED <<driver, shares, db, store, now, fresh>>

---------------------------------------------------------------------------
(* POST /api/folders, PATCH /api/folders/:id, DELETE /api/folders/:id *)

\* schema.parse, await storage.createFolder
CreateFolder(p) ==
    /\ Room(p, 1)
    /\ nextFolderId <= MaxFolders
    /\ \E user \in Users, name \in {"docs"}, parentId \in FolderIds \cup {Null} :
         LET f == [Idle EXCEPT !.op = "createFolder", !.user = user,
                               !.type = "folder", !.name = name,
                               !.folderId = parentId]
         IN IF FolderFkOk(parentId)
            THEN /\ folders' = createFolder([name |-> name, parentId |-> parentId,
                                             ownerId |-> user])
                 /\ nextFolderId' = nextFolderId + 1
                 /\ Goto(p, [f EXCEPT !.pc = "audit", !.id = nextFolderId])
            ELSE /\ Reply(p, f, 500, "ForeignKeyViolation")
                 /\ UNCHANGED <<folders, nextFolderId>>
    /\ UNCHANGED <<driver, shares, files, auditLogs, store, now, nextFileId, nextUuid>>

\* await storage.createAuditLog, res.status(201).json(folder)
CreateFolder_Audit(p) ==
    /\ At(p, "createFolder", "audit")
    /\ auditLogs' = createAuditLog(reqs[p].user, "folder_created", "folder", reqs[p].id)
    /\ Reply(p, reqs[p], 201, "")
    /\ UNCHANGED <<driver, shares, db, store, now, fresh>>

\* schema.parse, await storage.getFolderById, the ownership check
PatchFolder(p, NameInputs) ==
    /\ Room(p, 1)
    /\ \E user \in Users, id \in FolderIds, name \in NameInputs,
          parentId \in FolderIds \cup {Null} :
         LET folder == getFolderById(id)
             f == [Idle EXCEPT !.op = "patchFolder", !.user = user,
                               !.type = "folder", !.id = id, !.name = name,
                               !.folderId = parentId]
         IN IF folder = NoFolder \/ folder.ownerId # user
            THEN Reply(p, f, 404, "Folder not found")
            ELSE Goto(p, [f EXCEPT !.pc = "update"])
    /\ UNCHANGED <<driver, shares, db, auditLogs, store, now, fresh>>

\* await storage.updateFolder
PatchFolder_Update(p) ==
    /\ At(p, "patchFolder", "update")
    /\ IF FolderFkOk(reqs[p].folderId)
       THEN /\ folders' = updateFolder(folders, reqs[p].id, reqs[p].name,
                                       reqs[p].folderId, now)
            /\ Goto(p, [reqs[p] EXCEPT !.pc = "audit"])
       ELSE /\ Reply(p, reqs[p], 500, "ForeignKeyViolation")
            /\ UNCHANGED folders
    /\ UNCHANGED <<driver, shares, files, auditLogs, store, now, fresh>>

\* await storage.createAuditLog, res.json(updatedFolder)
PatchFolder_Audit(p) ==
    /\ At(p, "patchFolder", "audit")
    /\ auditLogs' = createAuditLog(reqs[p].user, "folder_updated", "folder", reqs[p].id)
    /\ Reply(p, reqs[p], 200, "")
    /\ UNCHANGED <<driver, shares, db, store, now, fresh>>

\* await storage.getFolderById, the ownership check
DeleteFolder(p) ==
    /\ Room(p, 1)
    /\ \E user \in Users, id \in FolderIds :
         LET folder == getFolderById(id)
             f == [Idle EXCEPT !.op = "deleteFolder", !.user = user,
                               !.type = "folder", !.id = id]
         IN IF folder = NoFolder \/ folder.ownerId # user
            THEN Reply(p, f, 404, "Folder not found")
            ELSE Goto(p, [f EXCEPT !.pc = "softDelete"])
    /\ UNCHANGED <<driver, shares, db, auditLogs, store, now, fresh>>

\* await storage.deleteFolder
DeleteFolder_SoftDelete(p) ==
    /\ At(p, "deleteFolder", "softDelete")
    /\ folders' = deleteFolder(folders, reqs[p].id, now)
    /\ Goto(p, [reqs[p] EXCEPT !.pc = "audit"])
    /\ UNCHANGED <<driver, shares, files, auditLogs, store, now, fresh>>

\* await storage.createAuditLog, res.sendStatus(204)
DeleteFolder_Audit(p) ==
    /\ At(p, "deleteFolder", "audit")
    /\ auditLogs' = createAuditLog(reqs[p].user, "folder_deleted", "folder", reqs[p].id)
    /\ Reply(p, reqs[p], 204, "")
    /\ UNCHANGED <<driver, shares, db, store, now, fresh>>

---------------------------------------------------------------------------
(* POST /api/shares, and the resolution of a share link. *)

\* body.password of a new link ("" = not given), and the passwords supplied
\* to resolve one
Passwords == {"", "pw"}

\* createHash("sha256") without update(data.password)
Sha256Hex_NoUpdate(password) == <<"sha256", "">>

\* crypto.createHash("sha256").update(password).digest("hex"): injective on
\* the passwords of the model
Sha256Hex(password) == <<"sha256", password>>

\* passwordHash undefined: the column is NULL
NoHash == <<>>

NoShareLink ==
    [id |-> Null, resourceType |-> "", resourceId |-> Null,
     passwordHash |-> NoHash, expiresAt |-> Null, allowDownload |-> FALSE,
     createdBy |-> "", createdAt |-> Null]

\* DatabaseStorage.createShareLink: the table after the insert
createShareLink(shareLink) ==
    shareLinks @@ (nextShareId :>
        [id |-> nextShareId, resourceType |-> shareLink.resourceType,
         resourceId |-> shareLink.resourceId,
         passwordHash |-> shareLink.passwordHash,
         expiresAt |-> shareLink.expiresAt,
         allowDownload |-> shareLink.allowDownload,
         createdBy |-> shareLink.createdBy, createdAt |-> now])

\* getShareLink without its where clause: the first row of the table
getShareLink_FirstRow(id) ==
    IF DOMAIN shareLinks # {}
    THEN shareLinks[CHOOSE i \in DOMAIN shareLinks :
                        \A j \in DOMAIN shareLinks : i <= j]
    ELSE NoShareLink

\* DatabaseStorage.getShareLink: the row, or undefined
getShareLink(id) ==
    IF id \in DOMAIN shareLinks THEN shareLinks[id] ELSE NoShareLink

\* schema.parse, the hash of the password if one is given, await
\* storage.createShareLink (allowDownload at its default)
CreateShare(p, ExpiryInputs, PasswordInputs) ==
    /\ Room(p, 1)
    /\ nextShareId <= MaxShares
    /\ \E user \in Users, resourceType \in {"file", "folder"},
          resourceId \in FileIds \cup FolderIds, expiresAt \in ExpiryInputs,
          password \in PasswordInputs :
         LET f == [Idle EXCEPT !.op = "createShare", !.user = user,
                               !.type = resourceType, !.id = resourceId,
                               !.expiresAt = expiresAt, !.password = password]
             passwordHash == IF password # "" THEN Sha256Hex(password)
                                              ELSE NoHash
         IN /\ shareLinks' = createShareLink(
                   [resourceType |-> resourceType, resourceId |-> resourceId,
                    expiresAt |-> expiresAt, passwordHash |-> passwordHash,
                    allowDownload |-> TRUE, createdBy |-> user])
            /\ nextShareId' = nextShareId + 1
            /\ Goto(p, [f EXCEPT !.pc = "audit", !.result = {nextShareId}])
    /\ UNCHANGED <<driver, db, auditLogs, store, now, fresh>>

\* await storage.createAuditLog, res.json
CreateShare_Audit(p) ==
    /\ At(p, "createShare", "audit")
    /\ auditLogs' = createAuditLog(reqs[p].user, "share_link_created",
                                   reqs[p].type, reqs[p].id)
    /\ Reply(p, reqs[p], 200, "")
    /\ UNCHANGED <<driver, shares, db, store, now, fresh>>

\* resolveLink(linkId, suppliedPassword?): the link is looked up; its
\* expiration is evaluated against the current time; the password check, if
\* the link has a hash set, is mandatory; then the resource is returned
ResolveLink(p) ==
    /\ Room(p, 0)
    /\ \E linkId \in 1..MaxShares, password \in Passwords \cup {"other"} :
         LET link == getShareLink(linkId)
             f == [Idle EXCEPT !.op = "resolveLink", !.id = linkId,
                               !.password = password]
         IN IF link = NoShareLink
            THEN Reply(p, f, 404, "NotFound")
            ELSE IF link.expiresAt # Null /\ link.expiresAt < now
            THEN Reply(p, f, 410, "Expired")
            ELSE IF /\ link.passwordHash # NoHash
                    /\ Sha256Hex(password) # link.passwordHash
            THEN Reply(p, f, 401, "WrongPassword")
            ELSE Reply(p, [f EXCEPT !.type = link.resourceType,
                                    !.result = {link.resourceId}], 200, "")
    /\ UNCHANGED <<driver, shares, db, auditLogs, store, now, fresh>>

---------------------------------------------------------------------------
(* POST /api/download/batch *)

\* the batch download filtering on `file` alone, without the owner
BatchDownload_NoOwnerFilter(p) ==
    /\ Room(p, 0)
    /\ \E user \in Users, ids \in SeqsUpTo(FileIds, MaxZip) :
         LET f == [Idle EXCEPT !.op = "batchDownload", !.user = user,
                               !.batch = ids]
             files_ == [i \in 1..Len(ids) |-> getFileById(ids[i])]
             validFiles == SelectSeq(files_, LAMBDA file : file # NoFile)
         IN IF validFiles = <<>>
            THEN Reply(p, f, 404, "No valid files found")
            ELSE Goto(p, [f EXCEPT !.pc = "append", !.valid = validFiles,
                                   !.status = 200])
    /\ UNCHANGED <<driver, shares, db, auditLogs, store, now, fresh>>

\* schema.parse, await Promise.all(fileIds.map(getFileById)), the filter on
\* the owner; 404 if nothing is left, else the headers of the archive.
\* `valid` holds the rows still to append.
BatchDownload(p) ==
    /\ Room(p, 0)
    /\ \E user \in Users, ids \in SeqsUpTo(FileIds, MaxZip) :
         LET f == [Idle EXCEPT !.op = "batchDownload", !.user = user,
                               !.batch = ids]
             files_ == [i \in 1..Len(ids) |-> getFileById(ids[i])]
             validFiles == SelectSeq(files_,
                               LAMBDA file : file # NoFile /\ file.ownerId = user)
         IN IF validFiles = <<>>
            THEN Reply(p, f, 404, "No valid files found")
            ELSE Goto(p, [f EXCEPT !.pc = "append", !.valid = validFiles,
                                   !.status = 200])
    /\ UNCHANGED <<driver, shares, db, auditLogs, store, now, fresh>>

\* for (const file of validFiles): try { await storageService.getFile;
\* archive.append } catch { console.error }.  `archive` holds the entries
\* appended, `result` the ids logged as failed.
BatchDownload_Append(p) ==
    /\ At(p, "batchDownload", "append")
    /\ reqs[p].valid # <<>>
    /\ LET file == Head(reqs[p].valid)
           f == [reqs[p] EXCEPT !.valid = Tail(@)]
       IN \E out \in storageService_getFile(file.storageKey) :
            IF out.ok
            THEN Goto(p, [f EXCEPT !.archive =
                             Append(@, [id |-> file.id, storageKey |-> file.storageKey,
                                        buffer |-> out.buffer])])
            ELSE Goto(p, [f EXCEPT !.result = @ \cup {file.id}])
    /\ UNCHANGED <<driver, shares, db, auditLogs, store, now, fresh>>

\* await archive.finalize()
BatchDownload_Finalize(p) ==
    /\ At(p, "batchDownload", "append")
    /\ reqs[p].valid = <<>>
    /\ Reply(p, reqs[p], 200, "")
    /\ UNCHANGED <<driver, shares, db, auditLogs, store, now, fresh>>

---------------------------------------------------------------------------
(* GET /api/search *)

\* query.q: "po", "r_p", "%"
Queries == {<<"p", "o">>, <<"r", "_", "p">>, <<"%">>}

\* query.type: not given, two categories, a string that names none
TypeFilters == {"", "image", "document", "other"}

\* query.ext: not given, or an extension
ExtFilters == {"", "pdf", "png"}

\* schema.parse (q: z.string().min(1)), await storage.searchFiles,
\* res.json(files)
Search(p) ==
    /\ Room(p, 0)
    /\ \E user \in Users, q \in Queries \cup {<<>>}, type \in TypeFilters,
          ext \in ExtFilters :
         LET f == [Idle EXCEPT !.op = "search", !.user = user, !.query = q,
                               !.type = type, !.ext = ext]
         IN IF q = <<>>
            THEN Reply(p, f, 400, "Invalid input")
            ELSE Reply(p, [f EXCEPT !.result = searchFiles(q, user, type, ext)],
                       200, "")
    /\ UNCHANGED <<driver, shares, db, auditLogs, store, now, fresh>>

---------------------------------------------------------------------------
(* Specifications. *)

\* the server at start, serving the processes of P
InitWith(P) ==
    /\ driver \in {"s3", "local"}
    /\ files = <<>>
    /\ folders = <<>>
    /\ auditLogs = <<>>
    /\ objects = <<>>
    /\ uploads = <<>>
    /\ now = 1
    /\ nextFileId = 1
    /\ nextFolderId = 1
    /\ nextUuid = 1
    /\ shareLinks = <<>>
    /\ nextShareId = 1
    /\ reqs = [p \in P |-> Idle]

Types == {"file", "folder"}

\* the random values drawn so far: the upload ids issued, and other strings
DrawnUuids == 1..(nextUuid - 1)

\* the server at start, one request served at a time
Init == InitWith({1})

\* Uploads, moves, soft-deletes, restores and purges of files and folders,
\* one request served at a time.

Next ==
    \/ \E p \in DOMAIN reqs : Respond(p)
    \/ \E p \in DOMAIN reqs : UploadLocal(p, AnyFolder)
    \/ \E p \in DOMAIN reqs : UploadLocal_CreateFile(p)
    \/ \E p \in DOMAIN reqs : UploadLocal_Audit(p)
    \/ \E p \in DOMAIN reqs : DeleteFile(p)
    \/ \E p \in DOMAIN reqs : DeleteFile_SoftDelete(p)
    \/ \E p \in DOMAIN reqs : DeleteFile_Audit(p)
    \/ \E p \in DOMAIN reqs : DeleteFolder(p)
    \/ \E p \in DOMAIN reqs : DeleteFolder_SoftDelete(p)
    \/ \E p \in DOMAIN reqs : DeleteFolder_Audit(p)
    \/ \E p \in DOMAIN reqs : Restore(p, Types)
    \/ \E p \in DOMAIN reqs : Restore_Update(p)
    \/ \E p \in DOMAIN reqs : Restore_Audit(p)
    \/ \E p \in DOMAIN reqs : Purge(p, Types)
    \/ \E p \in DOMAIN reqs : PurgeFile_Get(p)
    \/ \E p \in DOMAIN reqs : PurgeFile_StorageDelete(p)
    \/ \E p \in DOMAIN reqs : PurgeFile_DbDelete(p)
    \/ \E p \in DOMAIN reqs : PurgeFile_Audit(p)
    \/ \E p \in DOMAIN reqs : PurgeFolder_DbDelete(p)
    \/ \E p \in DOMAIN reqs : CreateFolder(p)
    \/ \E p \in DOMAIN reqs : CreateFolder_Audit(p)
    \/ \E p \in DOMAIN reqs : PatchFolder(p, {""})
    \/ \E p \in DOMAIN reqs : PatchFolder_Update(p)
    \/ \E p \in DOMAIN reqs : PatchFolder_Audit(p)
    \/ \E p \in DOMAIN reqs : PatchFile(p, {""})
    \/ \E p \in DOMAIN reqs : PatchFile_Update(p)
    \/ \E p \in DOMAIN reqs : PatchFile_Audit(p)

Spec == Init /\ [][Next]_vars

\* Soft-delete and restore of files and folders while time passes.
NextTrash ==
    \/ Tick
    \/ \E p \in DOMAIN reqs : Respond(p)
    \/ \E p \in DOMAIN reqs : UploadLocal(p, {Null})
    \/ \E p \in DOMAIN reqs : UploadLocal_CreateFile(p)
    \/ \E p \in DOMAIN reqs : UploadLocal_Audit(p)
    \/ \E p \in DOMAIN reqs : CreateFolder(p)
    \/ \E p \in DOMAIN reqs : CreateFolder_Audit(p)
    \/ \E p \in DOMAIN reqs : DeleteFile(p)
    \/ \E p \in DOMAIN reqs : DeleteFile_SoftDelete(p)
    \/ \E p \in DOMAIN reqs : DeleteFile_Audit(p)
    \/ \E p \in DOMAIN reqs : DeleteFolder(p)
    \/ \E p \in DOMAIN reqs : DeleteFolder_SoftDelete(p)
    \/ \E p \in DOMAIN reqs : DeleteFolder_Audit(p)
    \/ \E p \in DOMAIN reqs : Restore(p, Types)
    \/ \E p \in DOMAIN reqs : Restore_Update(p)
    \/ \E p \in DOMAIN reqs : Restore_Audit(p)

SpecTrash == Init /\ [][NextTrash]_vars

\* the server at start, two requests served concurrently
InitPurge == InitWith(Procs)

\* Uploads by both paths and purges of files, two requests served
\* concurrently.

NextPurge ==
    \/ ClientUploadPart
    \/ \E p \in DOMAIN reqs : Respond(p)
    \/ \E p \in DOMAIN reqs : UploadLocal(p, {Null})
    \/ \E p \in DOMAIN reqs : UploadLocal_CreateFile(p)
    \/ \E p \in DOMAIN reqs : UploadLocal_Audit(p)
    \/ \E p \in DOMAIN reqs : InitUpload(p, Filenames, {2}, {Null})
    \/ \E p \in DOMAIN reqs : InitUpload_CreateMultipart(p)
    \/ \E p \in DOMAIN reqs : InitUpload_Audit(p)
    \/ \E p \in DOMAIN reqs : CompleteUpload(p, {"alice"}, DrawnUuids, PartLists)
    \/ \E p \in DOMAIN reqs : CompleteUpload_Complete(p)
    \/ \E p \in DOMAIN reqs : CompleteUpload_Audit(p)
    \/ \E p \in DOMAIN reqs : Purge(p, {"file"})
    \/ \E p \in DOMAIN reqs : PurgeFile_Get(p)
    \/ \E p \in DOMAIN reqs : PurgeFile_StorageDelete(p)
    \/ \E p \in DOMAIN reqs : PurgeFile_DbDelete(p)
    \/ \E p \in DOMAIN reqs : PurgeFile_Audit(p)

SpecPurge == InitPurge /\ [][NextPurge]_vars

---------------------------------------------------------------------------
(* Purge of a file: FileService.permanentlyDeleteFile. *)

\* the frames of the purges being served
Purges == {p \in DOMAIN reqs : reqs[p].op = "purge"}

\* process p takes a step of the purge of a file
PurgeFileStep(p) ==
    /\ reqs[p].op = "purge"
    /\ reqs[p].type = "file"
    /\ reqs'[p] # reqs[p]

\* C1: when the owner purges a file and the object-store delete succeeds,
\* then once the purge has returned the file's row no longer exists and the
\* object store holds no object under the file's storage key.
C1_PurgeRemovesRowAndObject ==
    \A p \in Purges :
        (/\ reqs[p].type = "file"
         /\ reqs[p].pc = "reply"
         /\ reqs[p].status = 200
         /\ reqs[p].storage = "deleted")
        => /\ reqs[p].id \notin DOMAIN files
           /\ reqs[p].storageKey \notin DOMAIN objects

\* C2: when the owner purges a file and the object-store delete fails (the
\* store threw, or the object was already absent), the purge goes on to
\* remove the file's row and answers the caller without an error.
C2_FailedStorageDeleteIsSwallowed ==
    \A p \in Purges :
        reqs[p].storage = "failed"
        => /\ reqs[p].pc \in {"dbDeleteFile", "audit", "reply"}
           /\ reqs[p].pc \in {"audit", "reply"} => reqs[p].id \notin DOMAIN files
           /\ reqs[p].pc = "reply" => reqs[p].status = 200 /\ reqs[p].err = ""

\* a purge answered 200 whose storage delete had failed
C2_Witness ==
    \E p \in Purges :
        /\ reqs[p].pc = "reply"
        /\ reqs[p].storage = "failed"
        /\ reqs[p].status = 200
        /\ reqs[p].id \notin DOMAIN files

\* C3: whenever a file's row is removed, it is removed by a purge that has
\* already attempted the storage delete of that row's key.
C3_StorageDeleteBeforeRowRemoval ==
    [][\A id \in DOMAIN files \ DOMAIN files' :
          \E p \in Purges :
              /\ PurgeFileStep(p)
              /\ reqs[p].pc = "dbDeleteFile"
              /\ reqs[p].id = id
              /\ reqs[p].storageKey = files[id].storageKey
              /\ reqs[p].storage \in {"deleted", "failed"}]_vars

\* a purge has removed a row, after its storage delete attempt
C3_Witness ==
    \E p \in Purges :
        /\ reqs[p].pc = "audit"
        /\ reqs[p].storage \in {"deleted", "failed"}
        /\ reqs[p].id \notin DOMAIN files

\* process p purges, for someone other than its owner, a file that exists
NotOwnersPurge(p) ==
    /\ reqs[p].id \in DOMAIN files
    /\ files[reqs[p].id].ownerId # reqs[p].user

\* C4: a file purge requested by someone other than the file's owner fails
\* with Unauthorized, and no step of it changes the file's row (deletedAt
\* included), the stored objects or the audit log.
C4_NotOwnerPurgeIsUnauthorized ==
    [][\A p \in DOMAIN reqs :
          (PurgeFileStep(p) /\ NotOwnersPurge(p))
          => /\ UNCHANGED <<files, objects, auditLogs>>
             /\ reqs[p].pc = "get"
                => /\ reqs'[p].pc = "reply"
                   /\ reqs'[p].err = "Unauthorized"
                   /\ reqs'[p].status # 200]_vars

\* a purge by someone other than the owner has been refused; the row and
\* its object are there
C4_Witness ==
    \E p \in Purges :
        /\ reqs[p].pc = "reply"
        /\ reqs[p].err = "Unauthorized"
        /\ reqs[p].id \in DOMAIN files
        /\ files[reqs[p].id].ownerId # reqs[p].user
        /\ files[reqs[p].id].storageKey \in DOMAIN objects

---------------------------------------------------------------------------
(* Purge of a folder: POST /api/trash/purge, type folder. *)

\* C5: a folder purge requested by a user who is not the folder's owner
\* fails with Unauthorized and leaves the folder's row in place.
C5_NotOwnerFolderPurgeIsUnauthorized ==
    [][\A p \in Purges :
          (/\ reqs[p].type = "folder"
           /\ reqs'[p] # reqs[p]
           /\ reqs[p].id \in DOMAIN folders
           /\ folders[reqs[p].id].ownerId # reqs[p].user)
          => /\ reqs[p].id \in DOMAIN folders'
             /\ folders'[reqs[p].id] = folders[reqs[p].id]
             /\ reqs[p].pc = "dbDeleteFolder"
                => /\ reqs'[p].pc = "reply"
                   /\ reqs'[p].err = "Unauthorized"]_vars

---------------------------------------------------------------------------
(* Listings: getFilesByFolder and getFoldersByParent. *)

\* C6: in every state reached by uploads, moves, soft-deletes, restores and
\* purges by any users, the listing of a parent (Null = the root) for an
\* owner holds only rows of that owner, in that parent, with deletedAt unset,
\* for files and for folders.
C6_ListByParentScoped ==
    \A parentId \in AnyFolder, ownerId \in Users :
        /\ \A r \in getFilesByFolder(parentId, ownerId) :
              /\ r.ownerId = ownerId
              /\ r.folderId = parentId
              /\ r.deletedAt = Null
        /\ \A r \in getFoldersByParent(parentId, ownerId) :
              /\ r.ownerId = ownerId
              /\ r.parentId = parentId
              /\ r.deletedAt = Null

\* a listing that returns a file while a trashed file of the same owner
\* lies in the same parent
C6_Witness ==
    \E parentId \in AnyFolder, ownerId \in Users :
        /\ getFilesByFolder(parentId, ownerId) # {}
        /\ \E f \in DOMAIN files :
              /\ files[f].folderId = parentId
              /\ files[f].ownerId = ownerId
              /\ files[f].deletedAt # Null

---------------------------------------------------------------------------
(* Trash: soft-delete and restore. *)

\* the frames of the restores being served
Restores == {p \in DOMAIN reqs : reqs[p].op = "restore"}

\* process p executes storage.restoreFromTrash on the row `id` of `tbl`
RestoresRow(p, type, tbl, id) ==
    /\ At(p, "restore", "update")
    /\ reqs'[p] # reqs[p]
    /\ reqs[p].type = type
    /\ reqs[p].id = id
    /\ id \in DOMAIN tbl

\* C7: a restore requested by user U changes only rows owned by U: the
\* deletedAt and updatedAt of every trashed file or folder of another user
\* are left as they were.
C7_RestoreTouchesOnlyOwnRows ==
    [][\A p \in Restores :
          reqs'[p] # reqs[p]
          => /\ \A id \in DOMAIN files :
                  (files[id].ownerId # reqs[p].user /\ files[id].deletedAt # Null)
                  => /\ files'[id].deletedAt = files[id].deletedAt
                     /\ files'[id].updatedAt = files[id].updatedAt
             /\ \A id \in DOMAIN folders :
                  (folders[id].ownerId # reqs[p].user
                      /\ folders[id].deletedAt # Null)
                  => /\ folders'[id].deletedAt = folders[id].deletedAt
                     /\ folders'[id].updatedAt = folders[id].updatedAt]_vars

\* C8: soft-deleting a file and then restoring it yields the record the file
\* had before the soft-delete, equal in every field (updatedAt included),
\* with deletedAt cleared.  The soft-delete writes deletedAt alone, so the
\* record before it is the trashed record with deletedAt cleared: the
\* restore of a trashed file must produce exactly that.
C8_SoftDeleteRestoreRoundTrip ==
    [][\A p \in Restores, id \in DOMAIN files :
          (RestoresRow(p, "file", files, id) /\ files[id].deletedAt # Null)
          => files'[id] = [files[id] EXCEPT !.deletedAt = Null]]_vars

\* process p is at a step of the soft-delete of a file or folder
SoftDeleteStep(p) ==
    /\ reqs[p].op \in {"deleteFile", "deleteFolder"}
    /\ reqs'[p] # reqs[p]

\* C9: the soft-delete of a file or folder sets deletedAt on its row and
\* changes nothing else: the row's updatedAt and other fields, every other
\* row of both tables, and the stored objects stay as they were.
C9_SoftDeleteSetsDeletedAtOnly ==
    [][\A p \in DOMAIN reqs :
          SoftDeleteStep(p)
          => /\ UNCHANGED store
             /\ reqs[p].pc # "softDelete" => UNCHANGED db
             /\ At(p, "deleteFile", "softDelete")
                => /\ files'[reqs[p].id].deletedAt # Null
                   /\ files' = [files EXCEPT ![reqs[p].id].deletedAt =
                                                files'[reqs[p].id].deletedAt]
                   /\ UNCHANGED folders
             /\ At(p, "deleteFolder", "softDelete")
                => /\ folders'[reqs[p].id].deletedAt # Null
                   /\ folders' = [folders EXCEPT ![reqs[p].id].deletedAt =
                                                    folders'[reqs[p].id].deletedAt]
                   /\ UNCHANGED files]_vars

\* a file soft-deleted some time after its last update, its object in place
C9_Witness ==
    \E p \in DOMAIN reqs :
        /\ At(p, "deleteFile", "audit")
        /\ files[reqs[p].id].deletedAt # Null
        /\ files[reqs[p].id].updatedAt < files[reqs[p].id].deletedAt
        /\ files[reqs[p].id].storageKey \in DOMAIN objects

\* C10: restore is idempotent: the restore of a row that is active (never
\* trashed, or restored before) leaves the row as it was.
C10_RestoreIdempotent ==
    [][\A p \in Restores :
          /\ \A id \in DOMAIN files :
                (RestoresRow(p, "file", files, id) /\ files[id].deletedAt = Null)
                => files'[id] = files[id]
          /\ \A id \in DOMAIN folders :
                (RestoresRow(p, "folder", folders, id)
                    /\ folders[id].deletedAt = Null)
                => folders'[id] = folders[id]]_vars

\* C11: the trash listing of an owner is exactly the files and folders of
\* that owner whose deletedAt is set: no active row, no row of another
\* owner, and no trashed row of the owner missing.
C11_ListTrashExact ==
    \A ownerId \in Users :
        /\ getTrashItems(ownerId).files =
              {files[f] : f \in {g \in DOMAIN files :
                  files[g].ownerId = ownerId /\ files[g].deletedAt # Null}}
        /\ getTrashItems(ownerId).folders =
              {folders[f] : f \in {g \in DOMAIN folders :
                  folders[g].ownerId = ownerId /\ folders[g].deletedAt # Null}}

---------------------------------------------------------------------------
(* Ownership of the hierarchy. *)

\* C12: every folder whose parent is set has the owner of its parent.
C12_FolderParentSameOwner ==
    \A f \in DOMAIN folders :
        folders[f].parentId # Null
        => /\ folders[f].parentId \in DOMAIN folders
           /\ folders[folders[f].parentId].ownerId = folders[f].ownerId

\* C13: every file whose folder is set is in a folder of the file's owner.
C13_FileFolderSameOwner ==
    \A f \in DOMAIN files :
        files[f].folderId # Null
        => /\ files[f].folderId \in DOMAIN folders
           /\ folders[files[f].folderId].ownerId = files[f].ownerId

---------------------------------------------------------------------------
(* Storage keys. *)

\* Uploads by both paths, renames, moves, soft-deletes and restores of
\* files, two requests served concurrently, on the default driver (a
\* storage key is generated before any call of the adapter).
InitKeys == InitWith(Procs) /\ driver = "local"

NextKeys ==
    \/ \E p \in DOMAIN reqs : Respond(p)
    \/ \E p \in DOMAIN reqs : UploadLocal(p, {Null})
    \/ \E p \in DOMAIN reqs : UploadLocal_CreateFile(p)
    \/ \E p \in DOMAIN reqs : UploadLocal_Audit(p)
    \/ \E p \in DOMAIN reqs : InitUpload(p, Filenames, {2}, {Null})
    \/ \E p \in DOMAIN reqs : InitUpload_CreateMultipart(p)
    \/ \E p \in DOMAIN reqs : InitUpload_Audit(p)
    \/ \E p \in DOMAIN reqs : CreateFolder(p)
    \/ \E p \in DOMAIN reqs : CreateFolder_Audit(p)
    \/ \E p \in DOMAIN reqs : PatchFile(p, NewNames \cup {""})
    \/ \E p \in DOMAIN reqs : PatchFile_Update(p)
    \/ \E p \in DOMAIN reqs : PatchFile_Audit(p)
    \/ \E p \in DOMAIN reqs : DeleteFile(p)
    \/ \E p \in DOMAIN reqs : DeleteFile_SoftDelete(p)
    \/ \E p \in DOMAIN reqs : DeleteFile_Audit(p)
    \/ \E p \in DOMAIN reqs : Restore(p, {"file"})
    \/ \E p \in DOMAIN reqs : Restore_Update(p)
    \/ \E p \in DOMAIN reqs : Restore_Audit(p)

SpecKeys == InitKeys /\ [][NextKeys]_vars

\* C14: no two file rows ever share a storage key, rows created by
\* concurrent uploads of one filename by one owner included, and the storage
\* key of a row never changes while the row exists.
C14_StorageKeyUniqueAndImmutable ==
    [][/\ \A f, g \in DOMAIN files' :
             f # g => files'[f].storageKey # files'[g].storageKey
       /\ \A f \in DOMAIN files \cap DOMAIN files' :
             files'[f].storageKey = files[f].storageKey]_vars

\* two uploads of one filename by one owner in flight together, by the two
\* paths, each with its row
C14_Witness ==
    \E p, q \in DOMAIN reqs :
        /\ At(p, "initializeUpload", "audit")
        /\ At(q, "uploadLocal", "audit")
        /\ reqs[p].user = reqs[q].user
        /\ reqs[p].filename = reqs[q].filename
        /\ {reqs[p].id, reqs[q].id} \subseteq DOMAIN files
        /\ reqs[p].id # reqs[q].id

---------------------------------------------------------------------------
(* Upload completion. *)

\* Uploads by both paths and completions, two requests served concurrently.
NextUpload ==
    \/ ClientUploadPart
    \/ \E p \in DOMAIN reqs : Respond(p)
    \/ \E p \in DOMAIN reqs : UploadLocal(p, {Null})
    \/ \E p \in DOMAIN reqs : UploadLocal_CreateFile(p)
    \/ \E p \in DOMAIN reqs : UploadLocal_Audit(p)
    \/ \E p \in DOMAIN reqs :
          InitUpload(p, Filenames \cup {""}, {0, 2, 3}, {Null})
    \/ \E p \in DOMAIN reqs : InitUpload_CreateMultipart(p)
    \/ \E p \in DOMAIN reqs : InitUpload_Audit(p)
    \/ \E p \in DOMAIN reqs : CompleteUpload(p, {"alice"}, DrawnUuids, PartLists)
    \/ \E p \in DOMAIN reqs : CompleteUpload_Complete(p)
    \/ \E p \in DOMAIN reqs : CompleteUpload_Audit(p)

SpecUpload == InitPurge /\ [][NextUpload]_vars

\* the completions being served
Completions == {p \in DOMAIN reqs : reqs[p].op = "completeUpload"}

\* completeUpload has returned success to process p
CompletedOk(p) ==
    /\ reqs[p].op = "completeUpload"
    /\ reqs[p].pc = "reply"
    /\ reqs[p].status = 200

\* the audit entries of the given action about file id
Entries(action, id) ==
    {i \in DOMAIN auditLogs : /\ auditLogs[i].action = action
                              /\ auditLogs[i].targetType = "file"
                              /\ auditLogs[i].targetId = id}

\* initializeUpload has returned for file id, or never ran for it
Settled(id) ==
    \A q \in Running : ~(reqs[q].op = "initializeUpload" /\ reqs[q].id = id)

\* process p enters completeUpload for a file id (its lookup included)
EntersCompleteUpload(p) ==
    /\ reqs[p].pc = "idle"
    /\ reqs'[p].op = "completeUpload"

\* C15: for every file whose upload has completed, by either path, the size
\* in its row is the byte length of the object stored under its key.
C15_SizeIsStoredLength ==
    \A id \in DOMAIN files :
        (/\ Entries("file_uploaded", id) # {}
         /\ Settled(id)
         /\ files[id].storageKey \in DOMAIN objects)
        => files[id].size = Len(objects[files[id].storageKey])

\* C16: whenever completeUpload has returned success for a file, the object
\* store holds an object under the file's storage key, on either driver.
C16_CompletedHasObject ==
    \A p \in DOMAIN reqs :
        (CompletedOk(p) /\ Settled(reqs[p].id))
        => reqs[p].storageKey \in DOMAIN objects

\* C17: a file created by initializeUpload has a checksum once completeUpload
\* has succeeded for it.
C17_CompletedHasChecksum ==
    \A p \in DOMAIN reqs :
        (/\ CompletedOk(p)
         /\ Settled(reqs[p].id)
         /\ reqs[p].id \in DOMAIN files
         /\ Entries("file_upload_initiated", reqs[p].id) # {})
        => files[reqs[p].id].checksum # NoChecksum

\* C18: completeUpload for a file id that has no row fails with "File not
\* found" at the lookup: it makes no call to the object store and appends no
\* audit entry.
C18_CompleteOfMissingFileFails ==
    [][\A p \in DOMAIN reqs :
          (EntersCompleteUpload(p) /\ reqs'[p].id \notin DOMAIN files)
          => /\ reqs'[p].pc = "reply"
             /\ reqs'[p].err = "File not found"
             /\ reqs'[p].status # 200
             /\ UNCHANGED <<store, auditLogs>>]_vars

\* a completion refused for want of a row, the log and the store as they
\* were at start
C18_Witness ==
    \E p \in Completions :
        /\ reqs[p].pc = "reply"
        /\ reqs[p].err = "File not found"
        /\ reqs[p].id \notin DOMAIN files
        /\ Entries("file_uploaded", reqs[p].id) = {}

\* the part list names a tag that no transferred part has, or its part
\* numbers do not ascend
Malformed(parts) ==
    \/ \E i \in 1..(Len(parts) - 1) :
          parts[i].PartNumber >= parts[i + 1].PartNumber
    \/ \E i \in 1..Len(parts) :
          parts[i].ETag \notin {ETagOf(b) : b \in PartBytes}

\* C19: completeUpload fails, and nothing is finalized, when the part list
\* is out of order or carries a tag that matches no transferred part, on
\* either driver.
C19_MalformedPartsFail ==
    [][\A p \in Completions :
          (/\ reqs[p].pc = "complete"
           /\ reqs'[p] # reqs[p]
           /\ Settled(reqs[p].id)
           /\ Malformed(reqs[p].parts))
          => /\ reqs'[p].pc = "reply"
             /\ reqs'[p].status # 200
             /\ UNCHANGED objects]_vars

\* C20: completions of one file do not exclude one another: the lookup of a
\* completion passes whenever the row exists, whatever other completions are
\* in flight, and no completion reports Conflict.
C20_CompletionsNotExclusive ==
    [][\A p \in DOMAIN reqs :
          /\ (EntersCompleteUpload(p) /\ reqs'[p].id \in DOMAIN files)
             => reqs'[p].pc = "complete"
          /\ reqs'[p].op = "completeUpload" => reqs'[p].err # "Conflict"]_vars

\* two completions of one file were in flight together: both passed the
\* lookup, both finalized, both appended a file_uploaded entry, both
\* returned success
C20_Witness ==
    \E p, q \in DOMAIN reqs :
        /\ p # q
        /\ CompletedOk(p)
        /\ CompletedOk(q)
        /\ reqs[p].id = reqs[q].id
        /\ Cardinality(Entries("file_uploaded", reqs[p].id)) >= 2

---------------------------------------------------------------------------
(* The upload attempt: Initiated, PartsInFlight, Completed, Aborted. *)

\* the random parts of the storage keys of the rows: values that
\* createMultipartUpload never returned as an upload id
KeyUuids == {files[f].storageKey.uuid : f \in DOMAIN files}

\* the object store finalizes the upload for process p
Finalizes(p) ==
    /\ At(p, "completeUpload", "complete")
    /\ reqs'[p].pc = "audit"

\* C21: a completion succeeds only for an attempt that initializeUpload
\* started: the file has a file_upload_initiated entry (it was not created
\* by the direct upload), the upload id supplied is one that was issued (not
\* the random part of a storage key), and on the networked store it is the
\* upload opened for the file's key.
C21_CompletesOnlyInitiatedAttempt ==
    [][\A p \in Completions :
          (Finalizes(p) /\ Settled(reqs[p].id))
          => /\ Entries("file_upload_initiated", reqs[p].id) # {}
             /\ reqs[p].uploadId \notin KeyUuids
             /\ driver = "s3"
                => /\ reqs[p].uploadId \in DOMAIN uploads
                   /\ uploads[reqs[p].uploadId].key = reqs[p].storageKey]_vars

\* the initializations that have ended in an error after their row was
\* created
AbortedInits ==
    {p \in DOMAIN reqs : /\ reqs[p].op = "initializeUpload"
                         /\ reqs[p].pc = "reply"
                         /\ reqs[p].status # 200
                         /\ reqs[p].id # Null}

\* C22: once an initialization has failed after creating its provisional
\* record (the object store refused the multipart upload), the record is no
\* longer in the files table, nor in the listing of its owner.
C22_AbortRemovesProvisionalRecord ==
    \A p \in AbortedInits :
        /\ reqs[p].id \notin DOMAIN files
        /\ \A r \in getFilesByFolder(reqs[p].folderId, reqs[p].user) :
              r.id # reqs[p].id

\* process p enters POST /api/upload/init
EntersInitUpload(p) ==
    /\ reqs[p].pc = "idle"
    /\ reqs'[p].op = "initializeUpload"

\* C23: an initialization with an empty filename or a size that is not
\* positive is answered 400 "Invalid input" at once: no file row is created,
\* no multipart upload is opened, no audit entry is appended.
C23_InvalidInitRejected ==
    [][\A p \in DOMAIN reqs :
          (EntersInitUpload(p)
              /\ (reqs'[p].filename = "" \/ reqs'[p].size <= 0))
          => /\ reqs'[p].pc = "reply"
             /\ reqs'[p].status = 400
             /\ reqs'[p].err = "Invalid input"
             /\ UNCHANGED <<files, store, auditLogs, fresh>>]_vars

\* an initialization refused for its input, nothing created
C23_Witness ==
    \E p \in DOMAIN reqs :
        /\ At(p, "initializeUpload", "reply")
        /\ reqs[p].filename = "" \/ reqs[p].size <= 0
        /\ reqs[p].status = 400
        /\ reqs[p].id = Null
        /\ files = <<>>
        /\ uploads = <<>>
        /\ auditLogs = <<>>

\* C24: the direct upload has no provisional phase: at the step that
\* creates its row, the row has the checksum of the bytes uploaded, its size
\* is their length, and the store already holds those bytes under the row's
\* storage key.
C24_DirectUploadIsFinalized ==
    [][\A p \in DOMAIN reqs :
          (At(p, "uploadLocal", "createFile") /\ reqs'[p].pc = "audit")
          => LET id == reqs'[p].id
                 key == reqs[p].storageKey
             IN /\ id \notin DOMAIN files
                /\ id \in DOMAIN files'
                /\ files'[id].storageKey = key
                /\ files'[id].checksum # NoChecksum
                /\ files'[id].checksum = calculateChecksum(reqs[p].buffer)
                /\ files'[id].size = Len(reqs[p].buffer)
                /\ key \in DOMAIN objects'
                /\ objects'[key] = reqs[p].buffer
                /\ files'[id].size = Len(objects'[key])]_vars

\* a direct upload whose row has just been created, while a purge of
\* another file is in flight
C24_Witness ==
    \E p, q \in DOMAIN reqs :
        /\ At(p, "uploadLocal", "audit")
        /\ reqs[p].id \in DOMAIN files
        /\ files[reqs[p].id].checksum # NoChecksum
        /\ reqs[p].storageKey \in DOMAIN objects
        /\ reqs[q].op = "purge"
        /\ reqs[q].pc \notin {"idle", "reply"}

---------------------------------------------------------------------------
(* Share links. *)

\* the server at start on the default driver, one request served at a time
InitShare == InitWith({1}) /\ driver = "local"

\* Direct uploads, folders, share links created and resolved while time
\* passes, one request served at a time, on the default driver (no share
\* operation calls the adapter).

NextShare ==
    \/ Tick
    \/ \E p \in DOMAIN reqs : Respond(p)
    \/ \E p \in DOMAIN reqs : UploadLocal(p, {Null})
    \/ \E p \in DOMAIN reqs : UploadLocal_CreateFile(p)
    \/ \E p \in DOMAIN reqs : UploadLocal_Audit(p)
    \/ \E p \in DOMAIN reqs : CreateFolder(p)
    \/ \E p \in DOMAIN reqs : CreateFolder_Audit(p)
    \/ \E p \in DOMAIN reqs : CreateShare(p, (1..MaxTime) \cup {Null}, Passwords)
    \/ \E p \in DOMAIN reqs : CreateShare_Audit(p)
    \/ \E p \in DOMAIN reqs : ResolveLink(p)

SpecShare == InitShare /\ [][NextShare]_vars

\* the row of the resource a share request names, NoFile / NoFolder if none
ResourceOwner(type, id) ==
    IF type = "file" THEN getFileById(id).ownerId
    ELSE getFolderById(id).ownerId

\* process p enters POST /api/shares
EntersCreateShare(p) ==
    /\ reqs[p].pc = "idle"
    /\ reqs'[p].op = "createShare"

\* C25: a share link is created only for a file or folder that exists and
\* belongs to the creator: for a missing resource the request fails with
\* NotFound, for another user's resource with Unauthorized, and in both
\* cases the share_links table is left as it was.
C25_CreateLinkChecksResource ==
    [][\A p \in DOMAIN reqs :
          EntersCreateShare(p)
          => LET owner == ResourceOwner(reqs'[p].type, reqs'[p].id)
             IN /\ owner = ""
                   => /\ reqs'[p].pc = "reply"
                      /\ reqs'[p].err = "NotFound"
                      /\ UNCHANGED shareLinks
                /\ (owner # "" /\ owner # reqs'[p].user)
                   => /\ reqs'[p].pc = "reply"
                      /\ reqs'[p].err = "Unauthorized"
                      /\ UNCHANGED shareLinks]_vars

\* process p resolves the share link `link`, a row of the table
Resolves(p, link) ==
    /\ reqs[p].pc = "idle"
    /\ reqs'[p].op = "resolveLink"
    /\ reqs'[p].id \in DOMAIN shareLinks
    /\ link = shareLinks[reqs'[p].id]

\* the password a hash of the model was computed from
OriginalOf(passwordHash) == passwordHash[2]

---------------------------------------------------------------------------
(* The audit log. *)

\* Every route of files, folders, uploads, trash and share links that
\* writes an audit entry, one request served at a time, on the default
\* driver.
NextAudit ==
    \/ \E p \in DOMAIN reqs : Respond(p)
    \/ \E p \in DOMAIN reqs : UploadLocal(p, {Null})
    \/ \E p \in DOMAIN reqs : UploadLocal_CreateFile(p)
    \/ \E p \in DOMAIN reqs : UploadLocal_Audit(p)
    \/ \E p \in DOMAIN reqs : InitUpload(p, Filenames, {2}, {Null})
    \/ \E p \in DOMAIN reqs : InitUpload_CreateMultipart(p)
    \/ \E p \in DOMAIN reqs : InitUpload_Audit(p)
    \/ \E p \in DOMAIN reqs : CompleteUpload(p, {"alice"}, DrawnUuids, PartLists)
    \/ \E p \in DOMAIN reqs : CompleteUpload_Complete(p)
    \/ \E p \in DOMAIN reqs : CompleteUpload_Audit(p)
    \/ \E p \in DOMAIN reqs : PatchFile(p, NewNames)
    \/ \E p \in DOMAIN reqs : PatchFile_Update(p)
    \/ \E p \in DOMAIN reqs : PatchFile_Audit(p)
    \/ \E p \in DOMAIN reqs : DeleteFile(p)
    \/ \E p \in DOMAIN reqs : DeleteFile_SoftDelete(p)
    \/ \E p \in DOMAIN reqs : DeleteFile_Audit(p)
    \/ \E p \in DOMAIN reqs : CreateFolder(p)
    \/ \E p \in DOMAIN reqs : CreateFolder_Audit(p)
    \/ \E p \in DOMAIN reqs : PatchFolder(p, NewNames)
    \/ \E p \in DOMAIN reqs : PatchFolder_Update(p)
    \/ \E p \in DOMAIN reqs : PatchFolder_Audit(p)
    \/ \E p \in DOMAIN reqs : DeleteFolder(p)
    \/ \E p \in DOMAIN reqs : DeleteFolder_SoftDelete(p)
    \/ \E p \in DOMAIN reqs : DeleteFolder_Audit(p)
    \/ \E p \in DOMAIN reqs : Restore(p, Types)
    \/ \E p \in DOMAIN reqs : Restore_Update(p)
    \/ \E p \in DOMAIN reqs : Restore_Audit(p)
    \/ \E p \in DOMAIN reqs : Purge(p, Types)
    \/ \E p \in DOMAIN reqs : PurgeFile_Get(p)
    \/ \E p \in DOMAIN reqs : PurgeFile_StorageDelete(p)
    \/ \E p \in DOMAIN reqs : PurgeFile_DbDelete(p)
    \/ \E p \in DOMAIN reqs : PurgeFile_Audit(p)
    \/ \E p \in DOMAIN reqs : PurgeFolder_DbDelete(p)
    \/ \E p \in DOMAIN reqs : Download(p)
    \/ \E p \in DOMAIN reqs : Download_Fetch(p)
    \/ \E p \in DOMAIN reqs : Download_Audit(p)
    \/ \E p \in DOMAIN reqs : CreateShare(p, {Null}, {""})
    \/ \E p \in DOMAIN reqs : CreateShare_Audit(p)

SpecAudit == InitShare /\ [][NextAudit]_vars

\* C28: the audit log is append-only: every step of every operation leaves
\* the entries already in the log as they are and in place, so the log
\* after the step extends the log before it.
C28_AuditLogAppendOnly ==
    [][/\ Len(auditLogs') >= Len(auditLogs)
       /\ SubSeq(auditLogs', 1, Len(auditLogs)) = auditLogs]_vars

\* a log of entries about one file, by different operations
C28_Witness ==
    /\ Len(auditLogs) = MaxAudit
    /\ \A i \in DOMAIN auditLogs :
          /\ auditLogs[i].targetType = auditLogs[1].targetType
          /\ auditLogs[i].targetId = auditLogs[1].targetId
    /\ \E i, j \in DOMAIN auditLogs : auditLogs[i].action # auditLogs[j].action

---------------------------------------------------------------------------
(* Folders in the trash. *)

\* Folders created, soft-deleted and restored, and uploads into them begun,
\* one request served at a time.
NextFolderTrash ==
    \/ \E p \in DOMAIN reqs : Respond(p)
    \/ \E p \in DOMAIN reqs : CreateFolder(p)
    \/ \E p \in DOMAIN reqs : CreateFolder_Audit(p)
    \/ \E p \in DOMAIN reqs : InitUpload(p, Filenames, {2}, AnyFolder)
    \/ \E p \in DOMAIN reqs : InitUpload_CreateMultipart(p)
    \/ \E p \in DOMAIN reqs : InitUpload_Audit(p)
    \/ \E p \in DOMAIN reqs : DeleteFolder(p)
    \/ \E p \in DOMAIN reqs : DeleteFolder_SoftDelete(p)
    \/ \E p \in DOMAIN reqs : DeleteFolder_Audit(p)
    \/ \E p \in DOMAIN reqs : Restore(p, {"folder"})
    \/ \E p \in DOMAIN reqs : Restore_Update(p)
    \/ \E p \in DOMAIN reqs : Restore_Audit(p)

SpecFolderTrash == Init /\ [][NextFolderTrash]_vars

\* the audit entries of the given action about folder id
FolderEntries(action, id) ==
    {i \in DOMAIN auditLogs : /\ auditLogs[i].action = action
                              /\ auditLogs[i].targetType = "folder"
                              /\ auditLogs[i].targetId = id}

\* process p soft-deletes or restores the folder id
TrashesOrRestoresFolder(p, id) ==
    /\ \/ At(p, "deleteFolder", "softDelete")
       \/ At(p, "restore", "update") /\ reqs[p].type = "folder"
    /\ reqs'[p] # reqs[p]
    /\ reqs[p].id = id

\* C29: the soft-delete or the restore of a folder changes that folder's row
\* alone: every file row, the files inside the folder included, and every
\* other folder row, its sub-folders included, is left as it was, deletedAt
\* included.
C29_FolderTrashLeavesContents ==
    [][\A p \in DOMAIN reqs, id \in DOMAIN folders :
          TrashesOrRestoresFolder(p, id)
          => /\ files' = files
             /\ DOMAIN folders' = DOMAIN folders
             /\ \A g \in DOMAIN folders \ {id} : folders'[g] = folders[g]]_vars

\* a folder has been soft-deleted and then restored: it is active again,
\* and the file inside it is active as it was
C29_Witness ==
    \E p \in DOMAIN reqs, x \in DOMAIN files :
        /\ At(p, "restore", "audit")
        /\ reqs[p].type = "folder"
        /\ reqs[p].id \in DOMAIN folders
        /\ folders[reqs[p].id].deletedAt = Null
        /\ FolderEntries("folder_deleted", reqs[p].id) # {}
        /\ files[x].folderId = reqs[p].id
        /\ files[x].deletedAt = Null

---------------------------------------------------------------------------
(* Search. *)

\* Uploads of two files by both paths, soft-deletes and searches, one
\* request served at a time.
NextSearch ==
    \/ \E p \in DOMAIN reqs : Respond(p)
    \/ \E p \in DOMAIN reqs : UploadLocal(p, {Null})
    \/ \E p \in DOMAIN reqs : UploadLocal_CreateFile(p)
    \/ \E p \in DOMAIN reqs : UploadLocal_Audit(p)
    \/ \E p \in DOMAIN reqs : InitUpload(p, {"photo.png"}, {2}, {Null})
    \/ \E p \in DOMAIN reqs : InitUpload_CreateMultipart(p)
    \/ \E p \in DOMAIN reqs : InitUpload_Audit(p)
    \/ \E p \in DOMAIN reqs : DeleteFile(p)
    \/ \E p \in DOMAIN reqs : DeleteFile_SoftDelete(p)
    \/ \E p \in DOMAIN reqs : DeleteFile_Audit(p)
    \/ \E p \in DOMAIN reqs : Search(p)

SpecSearch == Init /\ [][NextSearch]_vars

\* the text holds the query as a substring
Contains(text, query) ==
    \E i \in 1..(Len(text) - Len(query) + 1) :
        SubSeq(text, i, i + Len(query) - 1) = query

\* process p is answered a search
Searches(p) ==
    /\ reqs[p].pc = "idle"
    /\ reqs'[p].op = "search"
    /\ reqs'[p].status = 200

\* C30: a search returns only files of the owner that are not soft-deleted
\* and whose name contains the query; with an extension filter only files of
\* that extension; with a known category only files whose extension is in
\* the category's set; an unknown category restricts nothing.
C30_SearchReturnsOnlyMatches ==
    [][\A p \in DOMAIN reqs :
          Searches(p)
          => LET r == reqs'[p]
             IN /\ \A f \in r.result :
                      /\ f \in DOMAIN files
                      /\ files[f].ownerId = r.user
                      /\ files[f].deletedAt = Null
                      /\ Contains(Chars(files[f].name), r.query)
                      /\ r.ext # "" => files[f].ext = r.ext
                      /\ r.type \in DOMAIN typePatterns
                         => files[f].ext \in typePatterns[r.type]
                /\ r.type \notin DOMAIN typePatterns
                   => r.result = searchFiles(r.query, r.user, "", r.ext)]_vars

---------------------------------------------------------------------------
(* Batch downloads. *)

\* Direct uploads and begun multipart uploads by both users, soft-deletes
\* and batch downloads, one request served at a time.
NextBatch ==
    \/ \E p \in DOMAIN reqs : Respond(p)
    \/ \E p \in DOMAIN reqs : UploadLocal(p, {Null})
    \/ \E p \in DOMAIN reqs : UploadLocal_CreateFile(p)
    \/ \E p \in DOMAIN reqs : UploadLocal_Audit(p)
    \/ \E p \in DOMAIN reqs : InitUpload(p, Filenames, {2}, {Null})
    \/ \E p \in DOMAIN reqs : InitUpload_CreateMultipart(p)
    \/ \E p \in DOMAIN reqs : InitUpload_Audit(p)
    \/ \E p \in DOMAIN reqs : DeleteFile(p)
    \/ \E p \in DOMAIN reqs : DeleteFile_SoftDelete(p)
    \/ \E p \in DOMAIN reqs : DeleteFile_Audit(p)
    \/ \E p \in DOMAIN reqs : BatchDownload(p)
    \/ \E p \in DOMAIN reqs : BatchDownload_Append(p)
    \/ \E p \in DOMAIN reqs : BatchDownload_Finalize(p)

SpecBatch == Init /\ [][NextBatch]_vars

\* the requested ids of the frame that have a row owned by the caller
OwnedRequested(f) ==
    {f.batch[i] : i \in DOMAIN f.batch} \cap
        {id \in DOMAIN files : files[id].ownerId = f.user}

\* the ids of the files in the archive of the frame
Archived(f) == {f.archive[i].id : i \in DOMAIN f.archive}

\* process p has been answered a batch download
BatchAnswered(p) == At(p, "batchDownload", "reply")

---------------------------------------------------------------------------
(* Deleting from the object store. *)

\* C32: deleting a key that holds no object can return ok and then leaves
\* the store as it is, in the backend in use: for every storage key of a
\* file row that holds no object (never written, or deleted before), some
\* outcome of storageService.deleteFile is ok with the store unchanged.
C32_DeleteIsIdempotent ==
    \A id \in DOMAIN files :
        files[id].storageKey \notin DOMAIN objects
        => \E out \in storageService_deleteFile(files[id].storageKey) :
              /\ out.ok
              /\ out.objects = objects

---------------------------------------------------------------------------
(* The lifecycle of a file. *)

\* Direct uploads, soft-deletes, restores, purges, downloads and searches of
\* files, one request served at a time.
NextLifecycle ==
    \/ \E p \in DOMAIN reqs : Respond(p)
    \/ \E p \in DOMAIN reqs : UploadLocal(p, {Null})
    \/ \E p \in DOMAIN reqs : UploadLocal_CreateFile(p)
    \/ \E p \in DOMAIN reqs : UploadLocal_Audit(p)
    \/ \E p \in DOMAIN reqs : DeleteFile(p)
    \/ \E p \in DOMAIN reqs : DeleteFile_SoftDelete(p)
    \/ \E p \in DOMAIN reqs : DeleteFile_Audit(p)
    \/ \E p \in DOMAIN reqs : Restore(p, {"file"})
    \/ \E p \in DOMAIN reqs : Restore_Update(p)
    \/ \E p \in DOMAIN reqs : Restore_Audit(p)
    \/ \E p \in DOMAIN reqs : Purge(p, {"file"})
    \/ \E p \in DOMAIN reqs : PurgeFile_Get(p)
    \/ \E p \in DOMAIN reqs : PurgeFile_StorageDelete(p)
    \/ \E p \in DOMAIN reqs : PurgeFile_DbDelete(p)
    \/ \E p \in DOMAIN reqs : PurgeFile_Audit(p)
    \/ \E p \in DOMAIN reqs : Download(p)
    \/ \E p \in DOMAIN reqs : Download_Fetch(p)
    \/ \E p \in DOMAIN reqs : Download_Audit(p)
    \/ \E p \in DOMAIN reqs : Search(p)

SpecLifecycle == Init /\ [][NextLifecycle]_vars

\* the lifecycle state of a file id that was given to a row
Active(id) == id \in DOMAIN files /\ files[id].deletedAt = Null

Trashed(id) == id \in DOMAIN files /\ files[id].deletedAt # Null

Purged(id) == id \in 1..(nextFileId - 1) /\ id \notin DOMAIN files

\* no lookup or listing of the repository returns the file
NotReturned(id) ==
    /\ getFileById(id) = NoFile
    /\ \A owner \in Users :
          /\ \A folder \in {Null} \cup FolderIds :
                id \notin {f.id : f \in getFilesByFolder(folder, owner)}
          /\ \A q \in Queries, type \in TypeFilters, ext \in ExtFilters :
                id \notin searchFiles(q, owner, type, ext)
          /\ id \notin {f.id : f \in getTrashItems(owner).files}

\* C33: every file id handed out is in exactly one of the states Active,
\* Trashed and Purged; the metadata removal of a purge makes the file
\* Purged; and a Purged file stays Purged over every step, is returned by no
\* lookup, listing, search or trash listing, and its download is not served.
C33_PurgedIsFinal ==
    [][/\ \A id \in 1..(nextFileId - 1) :
             /\ Active(id) \/ Trashed(id) \/ Purged(id)
             /\ ~(Active(id) /\ Trashed(id))
             /\ ~(Active(id) /\ Purged(id))
             /\ ~(Trashed(id) /\ Purged(id))
             /\ Purged(id) => Purged(id)' /\ NotReturned(id)'
       /\ \A p \in DOMAIN reqs :
             /\ (At(p, "purge", "dbDeleteFile") /\ reqs'[p] # reqs[p])
                => Purged(reqs[p].id)'
             /\ (reqs[p].pc = "idle" /\ reqs'[p].op = "search")
                => \A id \in reqs'[p].result : ~Purged(id)
             /\ (reqs[p].pc = "idle" /\ reqs'[p].op = "download"
                   /\ Purged(reqs'[p].id))
                => reqs'[p].pc = "reply" /\ reqs'[p].status = 404]_vars

\* a restore of a purged file has been answered, and the file is still
\* purged
C33_Witness ==
    \E p \in DOMAIN reqs :
        /\ At(p, "restore", "reply")
        /\ reqs[p].type = "file"
        /\ Purged(reqs[p].id)
        /\ \E i \in DOMAIN auditLogs :
              /\ auditLogs[i].action = "file_permanently_deleted"
              /\ auditLogs[i].targetId = reqs[p].id

\* C34: a soft-delete of a file that does not exist is answered NotFound
\* (404), one requested by a user who is not the owner Unauthorized (403);
\* the request ends there, no row and no audit entry is written; and a
\* soft-delete writes deletedAt only of a file owned by its requester.
C34_RejectedSoftDeleteWritesNothing ==
    [][\A p \in DOMAIN reqs :
          /\ (reqs[p].pc = "idle" /\ reqs'[p].op = "deleteFile")
             => LET r == reqs'[p]
                    file == getFileById(r.id)
                IN /\ file = NoFile
                      => /\ r.pc = "reply" /\ r.status = 404
                         /\ r.err = "File not found"
                   /\ (file # NoFile /\ file.ownerId # r.user)
                      => /\ r.pc = "reply" /\ r.status = 403
                         /\ r.err = "Unauthorized"
                   /\ r.pc = "reply" => r.status \in {403, 404}
                   /\ files' = files /\ auditLogs' = auditLogs
          /\ (reqs[p].op = "deleteFile" /\ reqs[p].pc # "reply")
             => \A id \in DOMAIN files \cap DOMAIN files' :
                   files'[id].deletedAt # files[id].deletedAt
                   => id = reqs[p].id /\ files[id].ownerId = reqs[p].user
          /\ (reqs[p].op = "deleteFile" /\ reqs[p].pc = "reply")
             => files' = files /\ auditLogs' = auditLogs]_vars

\* bob's soft-delete of alice's active file has been answered 403, and the
\* file is still active
C34_Witness ==
    \E p \in DOMAIN reqs :
        /\ At(p, "deleteFile", "reply")
        /\ reqs[p].status = 403
        /\ Active(reqs[p].id)
        /\ files[reqs[p].id].ownerId # reqs[p].user

---------------------------------------------------------------------------
(* Who may complete an upload. *)

\* C35: a completeUpload requested by a user who does not own the file is
\* rejected: no completeUpload is answered 200, with its audit entry
\* appended in the owner's name, unless the requester is the file's owner.
C35_CompleteUploadChecksOwner ==
    [][\A p \in DOMAIN reqs :
          (/\ At(p, "completeUpload", "audit")
           /\ reqs'[p].pc = "reply"
           /\ reqs'[p].status = 200
           /\ Len(auditLogs') = Len(auditLogs) + 1)
          => reqs[p].user = reqs[p].owner]_vars

---------------------------------------------------------------------------
(* Purging folders. *)

\* Folders created inside one another, uploads into folders, direct and
\* multipart, and purges of folders, one request served at a time.  Every
\* file row is created inside a folder.
NextFolderPurge ==
    \/ \E p \in DOMAIN reqs : Respond(p)
    \/ \E p \in DOMAIN reqs : CreateFolder(p)
    \/ \E p \in DOMAIN reqs : CreateFolder_Audit(p)
    \/ \E p \in DOMAIN reqs : UploadLocal(p, FolderIds)
    \/ \E p \in DOMAIN reqs : UploadLocal_CreateFile(p)
    \/ \E p \in DOMAIN reqs : UploadLocal_Audit(p)
    \/ \E p \in DOMAIN reqs : InitUpload(p, Filenames, {2}, FolderIds)
    \/ \E p \in DOMAIN reqs : InitUpload_CreateMultipart(p)
    \/ \E p \in DOMAIN reqs : InitUpload_Audit(p)
    \/ \E p \in DOMAIN reqs : Purge(p, {"folder"})
    \/ \E p \in DOMAIN reqs : PurgeFolder_DbDelete(p)

SpecFolderPurge == Init /\ [][NextFolderPurge]_vars

\* C36: the purge of a folder removes the folder and the folders below it
\* and no other folder, removes no file row and no object, and leaves every
\* file row as it was except that the files that were in a removed folder
\* have their folder reference unset.
C36_FolderPurgeKeepsFiles ==
    [][\A p \in DOMAIN reqs :
          (At(p, "purge", "dbDeleteFolder") /\ reqs'[p] # reqs[p])
          => LET gone == Cascade(reqs[p].id)
             IN /\ DOMAIN files' = DOMAIN files
                /\ objects' = objects
                /\ \A f \in DOMAIN files :
                      files'[f] =
                        [files[f] EXCEPT !.folderId =
                            IF @ \in gone THEN Null ELSE @]
                /\ DOMAIN folders' = DOMAIN folders \ gone
                /\ \A g \in DOMAIN folders' : folders'[g] = folders[g]]_vars

\* a folder purge has been answered, the folder is gone, and a file (which
\* was uploaded into a folder) is at the root with its object in the store
C36_Witness ==
    \E p \in DOMAIN reqs :
        /\ At(p, "purge", "reply")
        /\ reqs[p].type = "folder"
        /\ reqs[p].id \in 1..(nextFolderId - 1) \ DOMAIN folders
        /\ \E f \in DOMAIN files :
              /\ files[f].folderId = Null
              /\ files[f].storageKey \in DOMAIN objects

---------------------------------------------------------------------------
(* Records and their objects under concurrent requests. *)

\* C37: in every reachable state each file row whose upload has completed
\* (and whose initiation has returned) has its object in the store, unless a purge of that file is between its
\* storage delete and its metadata removal; and a step removes an object
\* from the store only as the storage delete of a purge of its file that the
\* file's owner requested.
C37_CompletedRecordsHaveObjects ==
    [][/\ \A id \in DOMAIN files :
             (/\ Entries("file_uploaded", id) # {}
              /\ Settled(id)
              /\ \A p \in DOMAIN reqs :
                    ~(At(p, "purge", "dbDeleteFile") /\ reqs[p].id = id))
             => files[id].storageKey \in DOMAIN objects
       /\ \A key \in DOMAIN objects \ DOMAIN objects' :
             \E p \in DOMAIN reqs :
                /\ At(p, "purge", "storageDelete")
                /\ reqs[p].storageKey = key
                /\ reqs[p].user = key.owner]_vars

---------------------------------------------------------------------------
(* A direct upload whose write fails. *)

\* C38: a direct upload whose object-store write fails (it is taken up and
\* no object is added) is answered with the error (500) at once, and creates
\* no file row and no audit entry: files, folders and the audit log are as
\* before; and a direct upload creates its row only with its object in the
\* store.
C38_FailedDirectUploadWritesNothing ==
    [][\A p \in DOMAIN reqs :
          /\ (/\ reqs[p].pc = "idle"
              /\ reqs'[p].op = "uploadLocal"
              /\ objects' = objects)
             => /\ reqs'[p].pc = "reply"
                /\ reqs'[p].status = 500
                /\ files' = files
                /\ folders' = folders
                /\ auditLogs' = auditLogs
          /\ (At(p, "uploadLocal", "reply") /\ reqs[p].status = 500)
             => files' = files /\ auditLogs' = auditLogs
          /\ (At(p, "uploadLocal", "createFile") /\ files' # files)
             => reqs[p].storageKey \in DOMAIN objects]_vars

\* a direct upload has failed on the store's write, after an earlier upload
\* succeeded: the one row and the one entry of the earlier upload are all
\* there is
C38_Witness ==
    \E p \in DOMAIN reqs :
        /\ At(p, "uploadLocal", "reply")
        /\ reqs[p].status = 500
        /\ reqs[p].err = "StorageUnavailable"
        /\ Cardinality(DOMAIN files) = 1
        /\ Len(auditLogs) = 1
        /\ Cardinality(DOMAIN objects) = 1

---------------------------------------------------------------------------
(* Audit entries follow the change they record. *)

\* C39: a step that appends an entry for an upload initiation, an upload
\* completion or direct upload, a file soft-delete or a file purge finds the
\* change it records in effect: the row created, the object of the uploaded
\* file in the store, the row marked deleted, the row removed; and a request
\* that fails with "File not found" or "Unauthorized" appends no entry.
C39_AuditFollowsEffect ==
    [][/\ Len(auditLogs') = Len(auditLogs) + 1
          => LET e == auditLogs'[Len(auditLogs')]
                 id == e.targetId
             IN /\ e.action = "file_upload_initiated" => id \in DOMAIN files
                /\ e.action = "file_uploaded"
                   => /\ id \in DOMAIN files
                      /\ files[id].storageKey \in DOMAIN objects
                /\ e.action = "file_deleted"
                   => id \in DOMAIN files /\ files[id].deletedAt # Null
                /\ e.action = "file_permanently_deleted"
                   => id \notin DOMAIN files
       /\ \A p \in DOMAIN reqs :
             (/\ reqs'[p] # reqs[p]
              /\ reqs'[p].pc = "reply"
              /\ reqs'[p].err \in {"File not found", "Unauthorized"})
             => auditLogs' = auditLogs]_vars

====
